---- MODULE Spec2Model ----
(***************************************************************************)
(* State-machine model of the AxiomFrontier world-state kernel: the        *)
(* in-memory store (InMemoryState), the action handlers registered by      *)
(* registerDefaultActions (both handler tables found in the sources), the  *)
(* job/heat subsystem, the faction system (reputation, zone control, city  *)
(* policy influence), the economy simulator, the tick orchestrator with    *)
(* its collaborator calls, and the reload of the handler table.            *)
(*                                                                         *)
(* Conventions.  A JavaScript Map is a TLA+ function whose DOMAIN is the   *)
(* key set.  An NPC is a function from the set of fields it carries to     *)
(* strings, so that "field absent" is representable.  Credits are held in  *)
(* hundredths of a credit (Cr(100) is 100 credits), because one withdraw   *)
(* handler debits amount * (1 + fee) with a fractional fee.                *)
(***************************************************************************)
EXTENDS Integers, Sequences, FiniteSets, TLC

VARIABLES
    players,      \* InMemoryState.players   : id -> PlayerState
    rooms,        \* InMemoryState.rooms     : id -> Room
    cities,       \* InMemoryState.cities    : id -> City policy
    npcs,         \* InMemoryState.npcs      : id -> Npc
    events,       \* InMemoryState.events    : newest first
    bugReports,   \* InMemoryState.bugReports: oldest first
    glossary,     \* InMemoryState.glossary  : source -> target
    nextEvt,      \* stamp of the next WorldEvent handed to pushEvent
    nextBug,      \* stamp of the next BugReport handed to pushBugReport
    table,        \* which handler table the ActionRegistry holds
    build,        \* the handler table the engine was constructed with
    factionRep,   \* FactionSystem.playerReputations: <<player, faction>> -> reputation
    conflicts,    \* FactionSystem.conflictEvents
    zoneControls, \* FactionSystem.zoneControls: zoneId -> ZoneControl
    zoneCalls,    \* the calls of updateZoneInfluence still to run, innermost first
    cityPolicyInfluences, \* FactionSystem.cityPolicyInfluences: cityId -> influences
    basePolicies, \* the CityPolicy object of each city, as handed to calculateCityPolicy
    items,        \* EconomySimulator.items: id -> MarketItem
    traders,      \* EconomySimulator.traderInventories: id -> TraderInventory
    activeEvents, \* EconomySimulator.activeEvents
    priceHistory, \* EconomySimulator.priceHistory: item id -> prices, oldest first
    ticks,        \* number of calls of EconomySimulator.tick so far (bounded by MaxTicks)
    restockedAt,  \* trader id -> the tick that last ran restockTrader on its inventory
    schedules,    \* NpcLifecycleManager.schedules: npc id -> NpcSchedule
    gameTime,     \* NpcLifecycleManager.gameTime, in in-game hours
    updates,      \* number of calls of updateSchedules so far (bounded by MaxUpdates)
    talks,        \* the NPC-talk requests inside their await: request number -> what they read
    tasks,        \* the tasks of the orchestration cycle: task id -> [state, detached]
    cycle,        \* "idle", "running" (inside orchestrateTick's await) or "finished"
    now,          \* Date.now(), in seconds
    steps,        \* number of requests served (bounded by MaxSteps)
    last          \* the last operation and what it returned

storeVars == <<players, rooms, cities, npcs, events, bugReports, glossary, nextEvt, nextBug>>
engineVars == <<table, build>>
policyVars == <<cityPolicyInfluences, basePolicies>>
factionVars == <<factionRep, conflicts, zoneControls, zoneCalls, policyVars>>
economyVars == <<items, traders, activeEvents, priceHistory, ticks, restockedAt>>
tickVars == <<tasks, cycle>>
scheduleVars == <<schedules, gameTime, updates>>
vars == <<storeVars, engineVars, factionVars, economyVars, tickVars, scheduleVars, talks, now, steps, last>>

-----------------------------------------------------------------------------
(* Bounds of the model *)

MaxSteps == 3
MaxTicks == 7
MaxUpdates == 8
StackDepth == 48
MaxEvtPush == 52
MaxBugPush == 202
SavedBugReports == 150
StartTime == 1000

-----------------------------------------------------------------------------
(* Helpers *)

Cr(n) == n * 100

Min(a, b) == IF a < b THEN a ELSE b
Max(a, b) == IF a > b THEN a ELSE b

EmptyMap == [x \in {} |-> 0]

\* obj with key k set to v (Map.set / property assignment)
MapSet(m, k, v) == [x \in DOMAIN m \cup {k} |-> IF x = k THEN v ELSE m[x]]

\* Map.delete
MapDel(m, k) == [x \in DOMAIN m \ {k} |-> m[x]]

\* { ...a, ...b }
Spread(a, b) == [x \in DOMAIN a \cup DOMAIN b |-> IF x \in DOMAIN b THEN b[x] ELSE a[x]]

\* Array.prototype.slice(0, n)
Take(s, n) == SubSeq(s, 1, Min(n, Len(s)))

\* Array.prototype.slice(-n)
TakeLast(s, n) == SubSeq(s, Max(1, Len(s) - n + 1), Len(s))

\* the sequence a, a+1, ..., b
Range(a, b) == [i \in 1..(b - a + 1) |-> a + i - 1]

-----------------------------------------------------------------------------
(* The default world *)

EventCap == 50
BugReportCap == 200
BugReportLoadCap == 100

DefaultPolicy ==
    [pvpOn |-> TRUE, dropRule |-> "partial", penalty |-> "bounty",
     taxTrade |-> 5, taxWithdraw |-> 2]

Room(neighbors, cityId, zone) ==
    [neighbors |-> neighbors, cityId |-> cityId, zone |-> zone]

DefaultRooms ==
    [r \in {"square", "north_gate", "market", "wild_north", "ruins"} |->
        CASE r = "square"     -> Room({"north_gate", "market"}, "bastion", "city")
          [] r = "north_gate" -> Room({"square", "wild_north"}, "bastion", "city")
          [] r = "market"     -> Room({"square"}, "bastion", "city")
          [] r = "wild_north" -> Room({"north_gate", "ruins"}, "none", "wild")
          [] r = "ruins"      -> Room({"wild_north"}, "none", "wild")]

DefaultCities == [c \in {"bastion"} |-> DefaultPolicy]

-----------------------------------------------------------------------------
(* World State Store: InMemoryState *)

PlayerIds == {"p1", "p2"}
NpcIds == {"n1", "n2"}

\* the record ensurePlayer creates; heat and jobCooldowns are absent from it and
\* are read as (player.heat ?? 0) and (player.jobCooldowns ?? {})
NewPlayer ==
    [location |-> "square", inventory |-> <<>>, credits |-> Cr(100),
     health |-> 100, hunger |-> 100, status |-> "ok",
     discoveredRooms |-> <<>>, reputation |-> EmptyMap, heat |-> 0,
     jobCooldowns |-> EmptyMap]

EnsurePlayerOverwrites(ps, id) == MapSet(ps, id, NewPlayer)

ensurePlayer(ps, id) ==
    IF id \in DOMAIN ps THEN ps ELSE MapSet(ps, id, NewPlayer)

getCityForRoom(rs, cs, roomId) ==
    IF roomId \notin DOMAIN rs THEN "none"
    ELSE IF rs[roomId].cityId = "none" THEN "none"
    ELSE IF rs[roomId].cityId \in DOMAIN cs THEN rs[roomId].cityId
    ELSE "none"

\* a WorldSpec is [rooms, cities, players], each a map keyed by id
SpecIsValid(spec) ==
    \A r \in DOMAIN spec.rooms :
        /\ spec.rooms[r].neighbors \subseteq DOMAIN spec.rooms
        /\ spec.rooms[r].cityId \in DOMAIN spec.cities \cup {"none"}

\* the current store as one value
Store ==
    [players |-> players, rooms |-> rooms, cities |-> cities, npcs |-> npcs,
     events |-> events, glossary |-> glossary, bugReports |-> bugReports]

FreshStore ==
    [players |-> EmptyMap, rooms |-> EmptyMap, cities |-> EmptyMap, npcs |-> EmptyMap,
     events |-> <<>>, glossary |-> EmptyMap, bugReports |-> <<>>]

applyWorld(s, spec) ==
    [s EXCEPT !.rooms = spec.rooms, !.cities = spec.cities, !.players = spec.players,
              !.npcs = EmptyMap, !.glossary = EmptyMap, !.events = <<>>]

mergeWorld(s, spec) ==
    [s EXCEPT !.rooms = Spread(s.rooms, spec.rooms),
              !.cities = Spread(s.cities, spec.cities),
              !.players = Spread(s.players, spec.players)]

\* npc.f, "undefined" when the record has no field f
NpcField(npc, f) == IF f \in DOMAIN npc THEN npc[f] ELSE "undefined"

\* an Npc value carries its id in the field "id"
\* upsertNpc of src/core/state.ts: the given record takes the place of the old one
upsertNpc_state(ns, npc) == MapSet(ns, npc["id"], npc)

\* upsertNpc of unnamed/part_002: { ...existing, ...npc, id: npc.id }
upsertNpc(ns, npc) ==
    IF npc["id"] \in DOMAIN ns
    THEN MapSet(ns, npc["id"], Spread(ns[npc["id"]], npc))
    ELSE MapSet(ns, npc["id"], npc)

\* engine.ts imports ./actions.js together with ./state.js; the handler table
\* of part_003 comes with the store of part_002
StoreIds == {"state.ts", "part_002"}
StoreOf(tbl) == IF tbl = "actions.ts" THEN "state.ts" ELSE "part_002"

\* world.upsertNpc(npc) of the store the engine was built with
UpsertNpcOf(store, ns, npc) ==
    IF store = "state.ts" THEN upsertNpc_state(ns, npc) ELSE upsertNpc(ns, npc)

PushEventDropsNewest(evs, evt) ==
    IF Len(evs) + 1 > EventCap THEN <<evt>> \o Take(Tail(evs), EventCap - 1)
    ELSE <<evt>> \o evs

\* unshift, then pop when over the cap
pushEvent(evs, evt) ==
    LET grown == <<evt>> \o evs
    IN  IF Len(grown) > EventCap THEN SubSeq(grown, 1, Len(grown) - 1) ELSE grown

PushBugReportDropsNewest(brs, report) ==
    LET grown == Append(brs, report)
    IN  IF Len(grown) > BugReportCap THEN SubSeq(grown, 1, Len(grown) - 1) ELSE grown

\* push, then shift when over the cap
pushBugReport(brs, report) ==
    LET grown == Append(brs, report)
    IN  IF Len(grown) > BugReportCap THEN Tail(grown) ELSE grown

\* Array.from(map.values()): the records, each with its key
Entries(m) == {<<k, m[k]>> : k \in DOMAIN m}

\* arr.forEach(x => map.set(x.id, x))
FromEntries(es) == [k \in {e[1] : e \in es} |-> (CHOOSE e \in es : e[1] = k)[2]]

toPersistedState(s) ==
    [players |-> Entries(s.players), rooms |-> Entries(s.rooms),
     cities |-> Entries(s.cities), npcs |-> Entries(s.npcs),
     events |-> s.events, glossary |-> Entries(s.glossary),
     bugReports |-> s.bugReports]

PersistedKeys == {"players", "rooms", "cities", "npcs", "events", "glossary", "bugReports"}

\* data is [null |-> BOOLEAN, body |-> the parsed object, a function on the keys it has]
loadPersistedState(s, data) ==
    IF data.null THEN s
    ELSE LET d == data.body
             coll(k) == IF k \in DOMAIN d THEN FromEntries(d[k]) ELSE EmptyMap
         IN  [players |-> coll("players"), rooms |-> coll("rooms"),
              cities |-> coll("cities"), npcs |-> coll("npcs"),
              glossary |-> coll("glossary"),
              events |-> IF "events" \in DOMAIN d THEN Take(d["events"], EventCap) ELSE <<>>,
              bugReports |-> IF "bugReports" \in DOMAIN d
                             THEN TakeLast(d["bugReports"], BugReportLoadCap) ELSE <<>>]

\* snapshot is [rooms, connections, zones]; rooms not in the snapshot are dropped
syncFromSnapshot(rs, snapshot) ==
    LET ids == DOMAIN snapshot.rooms
        merged == [id \in ids |->
                     IF id \in DOMAIN rs
                     THEN [rs[id] EXCEPT !.neighbors = snapshot.rooms[id].neighbors,
                                         !.zone = snapshot.rooms[id].zone]
                     ELSE snapshot.rooms[id]]
        valid == {c \in snapshot.connections : c[1] \in ids /\ c[2] \in ids}
        linked == [id \in ids |->
                     [merged[id] EXCEPT !.neighbors =
                         @ \cup {c[2] : c \in {x \in valid : x[1] = id}}
                           \cup {c[1] : c \in {x \in valid : x[2] = id}}]]
        zoneOf(id) == IF \E z \in snapshot.zones : id \in z.rooms
                      THEN (CHOOSE z \in snapshot.zones : id \in z.rooms).zone
                      ELSE linked[id].zone
    IN  [id \in ids |-> [linked[id] EXCEPT !.zone = zoneOf(id)]]

\* one npc of updateNpcsFromSnapshot's forEach
updateNpcFromSnapshot(ns, rs, npc) ==
    IF {"id", "name", "role"} \subseteq DOMAIN npc
    THEN IF "location" \in DOMAIN npc /\ npc["location"] \notin DOMAIN rs
         THEN upsertNpc(ns, MapSet(npc, "location", "square"))
         ELSE upsertNpc(ns, npc)
    ELSE ns

RECURSIVE updateNpcsFromSnapshot(_, _, _)
updateNpcsFromSnapshot(ns, rs, list) ==
    IF list = <<>> THEN ns
    ELSE updateNpcsFromSnapshot(updateNpcFromSnapshot(ns, rs, Head(list)), rs, Tail(list))

\* the write of one npcTick task: npc.location = update.moveTo
npcAutonomyMove(ns, rs, id, moveTo) ==
    IF moveTo # "none" /\ moveTo \in DOMAIN rs
    THEN MapSet(ns, id, MapSet(ns[id], "location", moveTo))
    ELSE ns

-----------------------------------------------------------------------------
(* Inputs of the store operations *)

QuietPolicy ==
    [pvpOn |-> FALSE, dropRule |-> "full", penalty |-> "fine",
     taxTrade |-> 5, taxWithdraw |-> 2]

WorldKeep ==
    [rooms |-> [r \in {"square", "gate"} |->
                   IF r = "square" THEN Room({"gate"}, "keep", "city")
                   ELSE Room({"square"}, "none", "wild")],
     cities |-> [c \in {"keep"} |-> QuietPolicy],
     players |-> [p \in {"p1", "p2"} |->
                    [NewPlayer EXCEPT !.heat = IF p = "p1" THEN 96 ELSE 37]]]

WorldHut ==
    [rooms |-> [r \in {"hut"} |-> Room({}, "hamlet", "wild")],
     cities |-> [c \in {"hamlet"} |-> DefaultPolicy],
     players |-> [p \in {"p2"} |->
                    [NewPlayer EXCEPT !.location = "hut", !.credits = Cr(500),
                                      !.inventory = <<"ore", "ore", "herb", "ore", "herb",
                                                      "gem", "ore", "herb", "gem", "ore">>]]]

WorldBadNeighbor ==
    [rooms |-> [r \in {"cave"} |-> Room({"ghost"}, "hamlet", "wild")],
     cities |-> [c \in {"hamlet"} |-> DefaultPolicy],
     players |-> EmptyMap]

WorldBadCity ==
    [rooms |-> [r \in {"dock"} |-> Room({}, "atlantis", "city")],
     cities |-> [c \in {"hamlet"} |-> DefaultPolicy],
     players |-> EmptyMap]

WorldSpecInputs == {WorldKeep, WorldHut, WorldBadNeighbor, WorldBadCity}

NpcInputs ==
    { [id |-> "n1", name |-> "Ulric", role |-> "guard", location |-> "square", style |-> "gruff"],
      [id |-> "n1", name |-> "Ulric the Old", role |-> "guard"],
      [id |-> "n1", name |-> "Ulric", role |-> "guard", location |-> "nowhere"],
      [id |-> "n2", name |-> "Elara", role |-> "merchant", location |-> "market"],
      [id |-> "n2", role |-> "merchant", location |-> "ruins"] }

SnapshotTown ==
    [rooms |-> [r \in {"square", "market"} |->
                   IF r = "square" THEN Room({"market"}, "none", "city")
                   ELSE Room({"square"}, "none", "city")],
     connections |-> {<<"square", "market">>, <<"market", "ruins">>},
     zones |-> {[zone |-> "wild", rooms |-> {"market"}]}]

SnapshotPlaza ==
    [rooms |-> [r \in {"plaza", "square"} |->
                   IF r = "plaza" THEN Room({}, "none", "city")
                   ELSE Room({"north_gate"}, "none", "city")],
     connections |-> {<<"plaza", "square">>},
     zones |-> {}]

SyncInputs == {SnapshotTown, SnapshotPlaza}

MoveTargets == {"none", "square", "market", "ruins", "nowhere"}

\* the store of a new GameEngine
DefaultStore == [FreshStore EXCEPT !.rooms = DefaultRooms, !.cities = DefaultCities]

\* JSON.parse of a written file
JsonFile(body) == [null |-> FALSE, body |-> body]

MarketMerchant ==
    [id |-> "market-merchant", name |-> "merchant", role |-> "merchant",
     location |-> "market", style |-> "friendly", reputationAffiliation |-> "merchant-guild"]

\* market / dialogue: some pending report mentions the market / the dialogue
processBugReports(s, market, dialogue) ==
    LET noneInMarket == \A n \in DOMAIN s.npcs : NpcField(s.npcs[n], "location") # "market"
        ns1 == IF market /\ "market" \in DOMAIN s.rooms /\ noneInMarket
               THEN upsertNpc(s.npcs, MarketMerchant)
               ELSE s.npcs
        ns2 == IF dialogue
               THEN [n \in DOMAIN ns1 |->
                       IF "memory" \in DOMAIN ns1[n] THEN ns1[n] ELSE MapSet(ns1[n], "memory", "empty")]
               ELSE ns1
    IN  [s EXCEPT !.npcs = ns2, !.bugReports = <<>>]

NpcListInputs ==
    {<<npc>> : npc \in NpcInputs}
    \cup {<< [id |-> "n1", name |-> "Ulric", role |-> "guard", location |-> "nowhere"],
             [id |-> "n2", name |-> "Elara", role |-> "merchant", location |-> "market"] >>}

\* a written state file: a player, the keep, an NPC, three events, 150 bug reports
SavedBody ==
    [players |-> Entries([p \in {"p1"} |-> [NewPlayer EXCEPT !.credits = Cr(40)]]),
     rooms |-> Entries(WorldKeep.rooms),
     cities |-> Entries(WorldKeep.cities),
     npcs |-> Entries([n \in {"n2"} |-> [id |-> "n2", name |-> "Elara", role |-> "merchant", location |-> "square"]]),
     events |-> <<903, 902, 901>>,
     glossary |-> Entries([g \in {"ore"} |-> "kuang"]),
     bugReports |-> Range(1001, 1000 + SavedBugReports)]

\* the file with any subset of its keys missing, or holding null
LoadInputs ==
    {[null |-> TRUE, body |-> EmptyMap]}
    \cup {JsonFile([k \in K |-> SavedBody[k]]) : K \in SUBSET PersistedKeys}

-----------------------------------------------------------------------------
(* Tick orchestrator.  A task of a cycle is "waiting" from its call of      *)
(* llm.completeJson until the reply arrives; the code after the await runs  *)
(* when the reply arrives.  An NPC task holds the Npc object it read from   *)
(* the map when the cycle began; the task is detached once another object   *)
(* has been put under the same id.                                          *)

\* rulerTick, eventTick, npcGenerationTick; the tasks of npcTick carry the NPC's id
RulerTask == "ruler"
EventTask == "event"
NpcGenTask == "npc-gen"

\* rulerTick and eventTick await completeJson outside any try: their promise rejects
RejectingTasks == {RulerTask, EventTask}

NewTask == [state |-> "waiting", detached |-> FALSE]

\* this.npcs.set(id, <another object>) while talk requests hold the old one
DetachTalks(ts, ids) ==
    [k \in DOMAIN ts |-> IF ts[k].npcId \in ids THEN [ts[k] EXCEPT !.detached = TRUE] ELSE ts[k]]

\* this.npcs.set(id, <another object>) while tasks hold the old one
Detach(ts, ids) ==
    [t \in DOMAIN ts |->
        IF t \in ids /\ ts[t].state = "waiting" THEN [ts[t] EXCEPT !.detached = TRUE] ELSE ts[t]]

\* Math.ceil(n / d)
CeilDiv(n, d) == (n + d - 1) \div d

\* the tasks orchestrateTick starts: server of part_004 with the ruler and the
\* ambient tasks enabled, or the server of index.ts
CycleTasks(store, ns, rs) ==
    {RulerTask, EventTask} \cup DOMAIN ns
    \cup (IF store = "part_002" /\ Cardinality(DOMAIN ns) < Max(3, CeilDiv(Cardinality(DOMAIN rs), 3))
          THEN {NpcGenTask} ELSE {})

\* what the collaborator's reply amounts to: "error" is a failed request, an
\* empty or an unparsable content (completeJson throws), "none" an object
\* without the field the task reads
RulerReplies ==
    {[kind |-> "error"], [kind |-> "none"],
     [kind |-> "patch", cityId |-> "bastion", policyPatch |-> [t \in {"taxTrade"} |-> 9]],
     [kind |-> "patch", cityId |-> "atlantis", policyPatch |-> [t \in {"taxTrade"} |-> 9]]}

EventReplies == {[kind |-> "error"], [kind |-> "none"], [kind |-> "event"]}

NpcReplies == {[kind |-> "error"]} \cup {[kind |-> "move", moveTo |-> m] : m \in MoveTargets}

Replies(t) ==
    CASE t = RulerTask -> RulerReplies
      [] t = EventTask -> EventReplies
      [] t = NpcGenTask -> {[kind |-> "error"], [kind |-> "none"]}
                             \cup {[kind |-> "npc", npc |-> npc] : npc \in NpcInputs}
      [] OTHER -> NpcReplies

\* rooms[0] of Array.from(rooms.values()): the square is the first room of the
\* default world and of the worlds the model loads
FirstRoom(rs) == IF "square" \in DOMAIN rs THEN "square" ELSE CHOOSE r \in DOMAIN rs : TRUE

\* the code of task t after its await, run on the reply; evt stamps a pushed event
taskResult(store, s, ts, t, reply, evt) ==
    CASE reply.kind = "patch" ->
            IF reply.cityId \in DOMAIN s.cities
            THEN [s EXCEPT !.cities = MapSet(@, reply.cityId, Spread(@[reply.cityId], reply.policyPatch))]
            ELSE s
      [] reply.kind = "event" -> [s EXCEPT !.events = pushEvent(@, evt)]
      [] reply.kind = "move" ->
            IF ts[t].detached \/ t \notin DOMAIN s.npcs THEN s
            ELSE [s EXCEPT !.npcs = npcAutonomyMove(@, s.rooms, t, reply.moveTo)]
      [] reply.kind = "npc" ->
            IF "location" \in DOMAIN reply.npc /\ reply.npc["location"] \in DOMAIN s.rooms
            THEN [s EXCEPT !.npcs = UpsertNpcOf(store, @, reply.npc)]
            ELSE IF DOMAIN s.rooms = {} THEN s
            ELSE [s EXCEPT !.npcs = UpsertNpcOf(store, @,
                                        MapSet(reply.npc, "location", FirstRoom(s.rooms)))]
      [] OTHER -> s

\* the task's promise: rejected, or fulfilled (the tasks with a try log and go on)
Settle(ts, t, reply) ==
    LET st == IF reply.kind = "error" /\ t \in RejectingTasks THEN "rejected" ELSE "done"
        ts1 == [ts EXCEPT ![t].state = st]
    IN  IF reply.kind = "npc" THEN Detach(ts1, {reply.npc["id"]}) ELSE ts1

\* await Promise.all(tasks) inside orchestrateTick's try: it is over with the
\* first rejection, or when every task is fulfilled
CycleAfter(ts) ==
    IF (\E t \in DOMAIN ts : ts[t].state = "rejected") \/ (\A t \in DOMAIN ts : ts[t].state = "done")
    THEN "finished" ELSE "running"

-----------------------------------------------------------------------------
(* Action handlers.  A handler maps the store s, the acting player pid, the *)
(* plan and the random draws rnd to [s, kind, summary]: the store after the *)
(* call and the result.  kind is "rejected" for a validation failure,       *)
(* "denied" for a policy denial, "ok" otherwise.                            *)

Result(s, kind, summary) == [s |-> s, kind |-> kind, summary |-> summary]

SetPlayer(s, pid, rec) == [s EXCEPT !.players = MapSet(@, pid, rec)]

\* ctx.city?.policy of the room the player stands in ("none" when the room has no city)
CityOf(s, pid) == getCityForRoom(s.rooms, s.cities, s.players[pid].location)

\* target?.startsWith("player:") and target.replace("player:", "")
PvpTargets == {"player:p1", "player:p2", "player:ghost"}
VictimId(target) ==
    CASE target = "player:p1" -> "p1"
      [] target = "player:p2" -> "p2"
      [] OTHER -> "ghost"

\* Math.floor(x / d) for a numerator in hundredths and the like
FloorDiv(n, d) == n \div d

\* array.filter(item => !lost.includes(item))
RECURSIVE FilterOut(_, _)
FilterOut(inv, lost) ==
    IF inv = <<>> THEN <<>>
    ELSE IF Head(inv) \in lost THEN FilterOut(Tail(inv), lost)
    ELSE <<Head(inv)>> \o FilterOut(Tail(inv), lost)

SeqToSet(q) == {q[i] : i \in 1..Len(q)}

\* Array.prototype.includes
Includes(q, x) == \E i \in 1..Len(q) : q[i] = x

\* if (!discoveredRooms?.includes(target)) discoveredRooms = [...discoveredRooms, target]
Discover(discovered, target) ==
    IF Includes(discovered, target) THEN discovered ELSE Append(discovered, target)

\* calculateDeathPenalty(player, cityPolicy, isPvP); city is "none" or a city id
calculateDeathPenalty(s, player, city, isPvP) ==
    LET creditLoss == Cr(FloorDiv(player.credits * (IF isPvP THEN 2 ELSE 1), 1000))
        dropRule == IF city = "none" THEN "partial" ELSE s.cities[city].dropRule
        n == Len(player.inventory)
        itemLoss == IF n = 0 THEN <<>>
                    ELSE IF dropRule = "full" /\ isPvP THEN player.inventory
                    ELSE IF dropRule = "partial" THEN Take(player.inventory, FloorDiv(n * 3, 10))
                    ELSE <<>>
        respawnLocation == IF Includes(player.discoveredRooms, "square") THEN "square" ELSE "wild_north"
        reputationPenalty == IF isPvP /\ city # "none" /\ s.cities[city].penalty = "bounty"
                             THEN [f \in {"city-guard"} |-> -10] ELSE EmptyMap
    IN  [creditLoss |-> creditLoss, itemLoss |-> itemLoss,
         respawnLocation |-> respawnLocation, reputationPenalty |-> reputationPenalty]

\* obj[k] = (obj[k] || 0) + delta for every entry of deltas
AddReputation(rep, deltas) ==
    [f \in DOMAIN rep \cup DOMAIN deltas |->
        (IF f \in DOMAIN rep THEN rep[f] ELSE 0) + (IF f \in DOMAIN deltas THEN deltas[f] ELSE 0)]

\* the victim after the death penalty is applied
ApplyDeathPenalty(victim, penalty) ==
    [victim EXCEPT !.credits = Max(0, @ - penalty.creditLoss),
                   !.inventory = FilterOut(@, SeqToSet(penalty.itemLoss)),
                   !.location = penalty.respawnLocation,
                   !.health = 100,
                   !.status = "ok",
                   !.reputation = AddReputation(@, penalty.reputationPenalty)]

(* ---- the handler table of src/core/actions.ts ---- *)

MoveA_MutatesFirst(s, pid, plan, rnd) ==
    LET me == s.players[pid]
        moved == SetPlayer(s, pid, [me EXCEPT !.location = plan.target])
    IN  IF plan.target = "none" THEN Result(s, "rejected", "need a target")
        ELSE IF plan.target \notin DOMAIN s.rooms
                  \/ plan.target \notin s.rooms[me.location].neighbors
             THEN Result(moved, "rejected", "cannot move there")
        ELSE Result(SetPlayer(s, pid, [me EXCEPT !.location = plan.target,
                                                  !.discoveredRooms = Discover(@, plan.target)]),
                    "ok", "moved")

MoveA(s, pid, plan, rnd) ==
    LET me == s.players[pid]
    IN  IF plan.target = "none" THEN Result(s, "rejected", "need a target")
        ELSE IF plan.target \notin DOMAIN s.rooms
                  \/ plan.target \notin s.rooms[me.location].neighbors
             THEN Result(s, "rejected", "cannot move there")
        ELSE Result(SetPlayer(s, pid, [me EXCEPT !.location = plan.target,
                                                  !.discoveredRooms = Discover(@, plan.target)]),
                    "ok", "moved")

AttackA(s, pid, plan, rnd) ==
    LET me == s.players[pid]
        target == plan.target
        isPvP == target \in PvpTargets
        hasNpc == target \in DOMAIN s.npcs
        city == CityOf(s, pid)
        pvpAllowed == IF city = "none" THEN TRUE ELSE s.cities[city].pvpOn
        zone == s.rooms[me.location].zone
        damage == rnd.roll + 10
        targetHealth == IF isPvP THEN 50 ELSE IF hasNpc THEN 40 ELSE 0
        kill == damage >= targetHealth
        victimId == VictimId(target)
    IN  IF target = "none" \/ (~isPvP /\ ~hasNpc)
        THEN Result(s, "rejected", "attack needs a target")
        ELSE IF isPvP /\ ~pvpAllowed /\ zone = "city"
        THEN Result(s, "denied", "pvp is forbidden in the city")
        ELSE IF kill /\ isPvP /\ victimId \in DOMAIN s.players
        THEN LET victim == s.players[victimId]
                 penalty == calculateDeathPenalty(s, victim, city, TRUE)
                 s1 == SetPlayer(s, victimId, ApplyDeathPenalty(victim, penalty))
                 att == s1.players[pid]
             IN  Result(SetPlayer(s1, pid,
                            [att EXCEPT !.reputation =
                                AddReputation(@, [f \in {"outlaw-syndicate"} |-> 5])]),
                        "ok", "pvp kill")
        ELSE IF kill /\ ~isPvP /\ hasNpc
        THEN LET s1 == [s EXCEPT !.npcs = MapDel(@, target)]
             IN  Result(SetPlayer(s1, pid,
                            [me EXCEPT !.inventory =
                                IF rnd.loot THEN Append(@, "npc_token") ELSE @]),
                        "ok", "npc kill")
        ELSE Result(s, "ok", "hit")

ObserveA(s, pid, plan, rnd) == Result(s, "ok", "observed")

WithdrawA(s, pid, plan, rnd) ==
    LET me == s.players[pid]
        amount == plan.amount
    IN  IF amount <= 0 \/ Cr(amount) > me.credits
        THEN Result(s, "rejected", "invalid withdraw amount")
        ELSE Result(SetPlayer(s, pid, [me EXCEPT !.credits = @ - Cr(amount)]),
                    "ok", "withdrawn")

TradeA(s, pid, plan, rnd) ==
    LET me == s.players[pid]
        amount == plan.amount
        city == CityOf(s, pid)
        taxPct == IF city = "none" THEN 5 ELSE s.cities[city].taxTrade
        tax == FloorDiv(amount * taxPct, 100)
        cost == amount + tax
    IN  IF plan.target = "none" \/ amount <= 0
        THEN Result(s, "rejected", "trade needs a target and an amount")
        ELSE IF Cr(cost) > me.credits
        THEN Result(s, "rejected", "not enough credits")
        ELSE Result(SetPlayer(s, pid, [me EXCEPT !.credits = @ - Cr(cost),
                                                  !.inventory = Append(@, plan.target)]),
                    "ok", "bought")

DieA(s, pid, plan, rnd) ==
    LET me == s.players[pid]
        penalty == calculateDeathPenalty(s, me, CityOf(s, pid), FALSE)
    IN  Result(SetPlayer(s, pid, ApplyDeathPenalty(me, penalty)), "ok", "died and respawned")

RespawnA(s, pid, plan, rnd) ==
    LET me == s.players[pid]
        respawnLocation == IF Includes(me.discoveredRooms, "square") THEN "square"
                           ELSE IF Includes(me.discoveredRooms, "market") THEN "market"
                           ELSE "wild_north"
        creditLoss == Cr(FloorDiv(me.credits * 5, 10000))
    IN  IF me.health > 0 /\ me.status = "ok"
        THEN Result(s, "rejected", "not dead")
        ELSE Result(SetPlayer(s, pid, [me EXCEPT !.location = respawnLocation,
                                                  !.health = 100,
                                                  !.status = "ok",
                                                  !.credits = Max(0, @ - creditLoss)]),
                    "ok", "respawned")

(* ---- the handler table of unnamed/part_003 ---- *)

\* applyCurrencyRules(player, amount, operation), amounts in hundredths
applyCurrencyRules(credits, amount, operation) ==
    IF operation = "add"
    THEN [success |-> TRUE, newCredits |-> Max(0, credits + amount)]
    ELSE IF credits < amount
    THEN [success |-> FALSE, newCredits |-> credits]
    ELSE [success |-> TRUE, newCredits |-> Max(0, credits - amount)]

\* validateTrade(player, targetNpc, amount, item): "" when valid, else the reason
validateTrade(s, pid, target, amount, item) ==
    LET me == s.players[pid]
    IN  IF target \notin DOMAIN s.npcs THEN "target npc does not exist"
        ELSE IF NpcField(s.npcs[target], "role") # "merchant"
        THEN "target is not a merchant"
        ELSE IF amount <= 0 THEN "amount must be positive"
        ELSE IF item # "none" /\ item \notin SeqToSet(me.inventory) THEN "player lacks the item"
        ELSE IF item = "none" /\ me.credits < Cr(amount) THEN "not enough credits"
        ELSE ""

MoveB_AppendsAlways(s, pid, plan, rnd) ==
    LET me == s.players[pid]
    IN  IF plan.target = "none" \/ plan.target \notin s.rooms[me.location].neighbors
        THEN Result(s, "rejected", "cannot move there")
        ELSE Result(SetPlayer(s, pid, [me EXCEPT !.location = plan.target,
                                                  !.discoveredRooms = Append(@, plan.target)]),
                    "ok", "moved")

MoveB(s, pid, plan, rnd) ==
    LET me == s.players[pid]
    IN  IF plan.target = "none" \/ plan.target \notin s.rooms[me.location].neighbors
        THEN Result(s, "rejected", "cannot move there")
        ELSE Result(SetPlayer(s, pid, [me EXCEPT !.location = plan.target,
                                                  !.discoveredRooms = Discover(@, plan.target)]),
                    "ok", "moved")

ObserveB(s, pid, plan, rnd) == Result(s, "ok", "observed")

WithdrawB(s, pid, plan, rnd) ==
    LET me == s.players[pid]
        amount == plan.amount
        city == CityOf(s, pid)
        feePct == IF city = "none" \/ s.cities[city].taxWithdraw = 0
                  THEN 2 ELSE s.cities[city].taxWithdraw
        totalCost == amount * (100 + feePct)
        currencyResult == applyCurrencyRules(me.credits, totalCost, "subtract")
    IN  IF amount <= 0 THEN Result(s, "rejected", "amount must be positive")
        ELSE IF ~currencyResult.success THEN Result(s, "rejected", "not enough credits")
        ELSE Result(SetPlayer(s, pid, [me EXCEPT !.credits = currencyResult.newCredits]),
                    "ok", "withdrawn")

AttackB(s, pid, plan, rnd) ==
    LET me == s.players[pid]
        target == plan.target
        city == CityOf(s, pid)
        damage == rnd.roll + 10
    IN  IF target \notin DOMAIN s.npcs
             \/ NpcField(s.npcs[target], "location") # me.location
        THEN Result(s, "rejected", "target is not here")
        ELSE IF city # "none" /\ ~s.cities[city].pvpOn /\ NpcField(s.npcs[target], "role") = "guard"
        THEN Result(SetPlayer(s, pid, [me EXCEPT !.health = Max(0, @ - 30)]),
                    "denied", "attacked a guard where pvp is off")
        ELSE Result(SetPlayer(s, pid, [me EXCEPT !.health = Max(0, @ - damage)]),
                    "ok", "attacked")

TradeB(s, pid, plan, rnd) ==
    LET me == s.players[pid]
        amount == plan.amount
        item == plan.notes
        reason == validateTrade(s, pid, plan.target, amount, item)
        sold == applyCurrencyRules(me.credits, Cr(amount * 10), "add")
        paid == applyCurrencyRules(me.credits, Cr(amount), "subtract")
    IN  IF reason # "" THEN Result(s, "rejected", reason)
        ELSE IF item # "none"
        THEN Result(SetPlayer(s, pid, [me EXCEPT !.credits = sold.newCredits,
                                                  !.inventory = FilterOut(@, {item})]),
                    "ok", "sold")
        ELSE IF ~paid.success THEN Result(s, "rejected", "not enough credits")
        ELSE Result(SetPlayer(s, pid, [me EXCEPT !.credits = paid.newCredits,
                                                  !.inventory = Append(@, "goods")]),
                    "ok", "bought")

ImprovB(s, pid, plan, rnd) == Result(s, "ok", "free action")

(* ---- ActionRegistry and GameEngine.applyAction ---- *)

TableIds == {"actions.ts", "part_003"}

Handlers(tbl) ==
    IF tbl = "actions.ts"
    THEN {"move", "attack", "observe", "withdraw", "trade", "die", "respawn"}
    ELSE {"move", "observe", "withdraw", "attack", "trade", "improv"}

Handle(tbl, s, pid, plan, rnd) ==
    IF tbl = "actions.ts"
    THEN CASE plan.action = "move"     -> MoveA(s, pid, plan, rnd)
           [] plan.action = "attack"   -> AttackA(s, pid, plan, rnd)
           [] plan.action = "observe"  -> ObserveA(s, pid, plan, rnd)
           [] plan.action = "withdraw" -> WithdrawA(s, pid, plan, rnd)
           [] plan.action = "trade"    -> TradeA(s, pid, plan, rnd)
           [] plan.action = "die"      -> DieA(s, pid, plan, rnd)
           [] plan.action = "respawn"  -> RespawnA(s, pid, plan, rnd)
    ELSE CASE plan.action = "move"     -> MoveB(s, pid, plan, rnd)
           [] plan.action = "observe"  -> ObserveB(s, pid, plan, rnd)
           [] plan.action = "withdraw" -> WithdrawB(s, pid, plan, rnd)
           [] plan.action = "attack"   -> AttackB(s, pid, plan, rnd)
           [] plan.action = "trade"    -> TradeB(s, pid, plan, rnd)
           [] plan.action = "improv"   -> ImprovB(s, pid, plan, rnd)

ApplyAction_ThrowsOnUnknown(tbl, s, pid, plan, rnd) ==
    LET s1 == [s EXCEPT !.players = ensurePlayer(@, pid)]
    IN  IF s1.players[pid].location \notin DOMAIN s1.rooms
        THEN Result(s1, "error", "Invalid player location")
        ELSE IF plan.action \notin Handlers(tbl)
        THEN Result(s1, "error", "no handler")
        ELSE Handle(tbl, s1, pid, plan, rnd)

\* GameEngine.applyAction(playerId, plan)
applyAction(tbl, s, pid, plan, rnd) ==
    LET s1 == [s EXCEPT !.players = ensurePlayer(@, pid)]
    IN  IF s1.players[pid].location \notin DOMAIN s1.rooms
        THEN Result(s1, "error", "Invalid player location")
        ELSE IF plan.action \notin Handlers(tbl)
        THEN Result(s1, "unhandled", "recorded, no rule yet")
        ELSE Handle(tbl, s1, pid, plan, rnd)

ReloadActions_ClearsFirst(tbl, registered) == "cleared"

\* engine.reloadActions(register): the table that registerDefaultActions of
\* the reloaded module fills takes the place of the old one in one step
reloadActions(tbl, registered) == registered

\* engine.hasAction(action): ActionRegistry.has
hasAction(tbl, action) == action \in Handlers(tbl)

\* String.prototype.trim on the action strings the requests carry
Trim(a) ==
    CASE a = " observe " -> "observe"
      [] a = "dance "    -> "dance"
      [] a = "  "        -> ""
      [] OTHER           -> a

-----------------------------------------------------------------------------
(* Job/heat subsystem *)

HeatDecay == 4
IllegalHeatCeiling == 95

Job(type, zone, onlyInRooms, cooldownSec, creditReward, healthDelta, hungerDelta, heatDelta) ==
    [type |-> type, zone |-> zone, onlyInRooms |-> onlyInRooms, cooldownSec |-> cooldownSec,
     creditReward |-> creditReward, healthDelta |-> healthDelta, hungerDelta |-> hungerDelta,
     heatDelta |-> heatDelta, hasMinHeat |-> FALSE, minHeat |-> 0,
     hasMaxHeat |-> FALSE, maxHeat |-> 0]

JobIds == {"courier-market", "street-hustle", "pickpocket", "gate-bribe-run", "scavenge-wild"}

\* zone "any" and onlyInRooms {} stand for an absent zone / onlyInRooms
JOBS ==
    [j \in JobIds |->
        CASE j = "courier-market" -> Job("legal", "city", {"market", "square"}, 60, 18, 0, -3, -2)
          [] j = "street-hustle"  -> Job("legal", "city", {"square"}, 90, 25, 0, -4, 0)
          [] j = "pickpocket"     -> Job("illegal", "city", {"market", "square"}, 120, 55, -5, -2, 22)
          [] j = "gate-bribe-run" -> Job("illegal", "any", {"north_gate"}, 180, 90, -8, -3, 35)
          [] j = "scavenge-wild"  -> Job("combat", "wild", {}, 120, 70, -12, -8, 5)]

NoClamp(n, lo, hi) == n

clamp(n, lo, hi) == Max(lo, Min(hi, n))

getHeat(player) == clamp(player.heat, 0, 100)

ComputeWantedLevel_StrictBounds(heat) ==
    LET h == Max(0, Min(100, heat))
    IN  IF h > 85 THEN 5
        ELSE IF h > 70 THEN 4
        ELSE IF h > 55 THEN 3
        ELSE IF h > 35 THEN 2
        ELSE IF h > 15 THEN 1
        ELSE 0

computeWantedLevel(heat) ==
    LET h == clamp(heat, 0, 100)
    IN  IF h >= 85 THEN 5
        ELSE IF h >= 70 THEN 4
        ELSE IF h >= 55 THEN 3
        ELSE IF h >= 35 THEN 2
        ELSE IF h >= 15 THEN 1
        ELSE 0

CanRunJob_ForgetsCooldown(def, jobId, player, room, roomId, t) ==
    LET heat == getHeat(player)
    IN  IF def.zone # "any" /\ room.zone # def.zone THEN "wrong place"
        ELSE IF def.onlyInRooms # {} /\ roomId \notin def.onlyInRooms THEN "wrong place"
        ELSE IF def.type = "illegal" /\ heat >= IllegalHeatCeiling THEN "too much heat"
        ELSE ""

\* "" when the job may run, else the reason
canRunJob(def, jobId, player, room, roomId, t) ==
    LET lastRun == IF jobId \in DOMAIN player.jobCooldowns THEN player.jobCooldowns[jobId] ELSE 0
        remaining == lastRun + def.cooldownSec - t
        heat == getHeat(player)
    IN  IF remaining > 0 THEN "cooling down"
        ELSE IF def.hasMinHeat /\ heat < def.minHeat THEN "heat too low"
        ELSE IF def.hasMaxHeat /\ heat > def.maxHeat THEN "heat too high"
        ELSE IF def.zone # "any" /\ room.zone # def.zone THEN "wrong place"
        ELSE IF def.onlyInRooms # {} /\ roomId \notin def.onlyInRooms THEN "wrong place"
        ELSE IF def.type = "illegal" /\ heat >= IllegalHeatCeiling THEN "too much heat"
        ELSE ""

RunJob_StampsBeforeGate(s, pid, jobId, t) ==
    LET me == s.players[pid]
        stamped == SetPlayer(s, pid, [me EXCEPT !.jobCooldowns = MapSet(@, jobId, t)])
    IN  IF me.location \notin DOMAIN s.rooms
        THEN [s |-> s, kind |-> "error", summary |-> "Invalid player location", wanted |-> 0]
        ELSE IF jobId \notin JobIds
        THEN [s |-> s, kind |-> "error", summary |-> "Unknown job", wanted |-> 0]
        ELSE LET def == JOBS[jobId]
                 reason == canRunJob(def, jobId, me, s.rooms[me.location], me.location, t)
                 afterHeat == clamp(getHeat(me) + def.heatDelta, 0, 100)
                 health == clamp(me.health + def.healthDelta, 0, 100)
             IN  IF reason # ""
                 THEN [s |-> stamped, kind |-> "blocked", summary |-> reason, wanted |-> 0]
                 ELSE [s |-> SetPlayer(s, pid,
                                [me EXCEPT !.heat = afterHeat,
                                           !.credits = Max(0, @ + Cr(def.creditReward)),
                                           !.health = health,
                                           !.hunger = clamp(@ + def.hungerDelta, 0, 100),
                                           !.status = IF health = 0 THEN "down" ELSE "ok",
                                           !.jobCooldowns = MapSet(@, jobId, t)]),
                       kind |-> "ok", summary |-> "job done",
                       wanted |-> computeWantedLevel(afterHeat)]

\* runJob(world, player, jobId) at time t
runJob(s, pid, jobId, t) ==
    LET me == s.players[pid]
    IN  IF me.location \notin DOMAIN s.rooms
        THEN [s |-> s, kind |-> "error", summary |-> "Invalid player location", wanted |-> 0]
        ELSE IF jobId \notin JobIds
        THEN [s |-> s, kind |-> "error", summary |-> "Unknown job", wanted |-> 0]
        ELSE LET def == JOBS[jobId]
                 reason == canRunJob(def, jobId, me, s.rooms[me.location], me.location, t)
                 afterHeat == clamp(getHeat(me) + def.heatDelta, 0, 100)
                 health == clamp(me.health + def.healthDelta, 0, 100)
             IN  IF reason # ""
                 THEN [s |-> s, kind |-> "blocked", summary |-> reason, wanted |-> 0]
                 ELSE [s |-> SetPlayer(s, pid,
                                [me EXCEPT !.heat = afterHeat,
                                           !.credits = Max(0, @ + Cr(def.creditReward)),
                                           !.health = health,
                                           !.hunger = clamp(@ + def.hungerDelta, 0, 100),
                                           !.status = IF health = 0 THEN "down" ELSE "ok",
                                           !.jobCooldowns = MapSet(@, jobId, t)]),
                       kind |-> "ok", summary |-> "job done",
                       wanted |-> computeWantedLevel(afterHeat)]

decayHeatForAllPlayers(ps, amount) ==
    [p \in DOMAIN ps |-> [ps[p] EXCEPT !.heat = clamp(getHeat(ps[p]) - amount, 0, 100)]]

-----------------------------------------------------------------------------
(* FactionSystem: reputations and conflicts *)

ConflictCap == 50

FactionIds == {"merchant-guild", "shadow-cabal", "guard-corps"}

\* Faction.aggression of the default factions
Aggression ==
    [f \in FactionIds |->
        CASE f = "merchant-guild" -> 20
          [] f = "shadow-cabal"   -> 80
          [] f = "guard-corps"    -> 30]

\* Math.round(n / d) for d > 0: halves go up
Round(n, d) == FloorDiv(2 * n + d, 2 * d)

\* the action-type multiplier, in tenths
ActionMultiplier(actionType) ==
    CASE actionType = "trade"  -> 5
      [] actionType = "attack" -> 20
      [] actionType = "quest"  -> 15
      [] actionType = "theft"  -> -15
      [] actionType = "bribe"  -> 8
      [] OTHER                 -> 10

calculateReputationDelta(baseDelta, actionType, factionId) ==
    IF factionId \notin FactionIds
    THEN baseDelta
    ELSE Round(baseDelta * ActionMultiplier(actionType) * (100 + Aggression[factionId]), 1000)

\* intensity is kept in thousandths
recordConflict(cs, factionA, factionB, intensity) ==
    LET pushed == Append(cs, [factionA |-> factionA, factionB |-> factionB, intensity |-> intensity])
    IN  IF Len(pushed) > ConflictCap THEN Tail(pushed) ELSE pushed

triggerFactionReaction(cs, factionId, delta) ==
    IF factionId \in FactionIds /\ delta < -20
    THEN recordConflict(cs, factionId, "player", (-delta) * 100)
    ELSE cs

getPlayerReputation(reps, playerId, factionId) ==
    IF playerId \in DOMAIN reps /\ factionId \in DOMAIN reps[playerId]
    THEN reps[playerId][factionId]
    ELSE 0

UpdatePlayerReputationUnclamped(reps, playerId, factionId, delta, actionType) ==
    LET mine == IF playerId \in DOMAIN reps THEN reps[playerId] ELSE EmptyMap
        adjustedDelta == calculateReputationDelta(delta, actionType, factionId)
    IN  MapSet(reps, playerId,
               MapSet(mine, factionId, getPlayerReputation(reps, playerId, factionId) + adjustedDelta))

\* the new playerReputations map
updatePlayerReputation(reps, playerId, factionId, delta, actionType) ==
    LET mine == IF playerId \in DOMAIN reps THEN reps[playerId] ELSE EmptyMap
        adjustedDelta == calculateReputationDelta(delta, actionType, factionId)
        rep == clamp(getPlayerReputation(reps, playerId, factionId) + adjustedDelta, -100, 100)
    IN  MapSet(reps, playerId, MapSet(mine, factionId, rep))

(* ---- zone control ---- *)

\* a ZoneControl; influence is the Map's entries <<factionId, influence>> in
\* insertion order, controllingFactionId "null" stands for null
NewZoneControl == [controllingFactionId |-> "null", contested |-> FALSE, influence |-> <<>>]

\* getZoneControl(zoneId) creates the record when the zone has none
getZoneControl(zs, zoneId) ==
    IF zoneId \in DOMAIN zs THEN zs ELSE MapSet(zs, zoneId, NewZoneControl)

\* influence.get(factionId) || 0
InfluenceOf(inf, factionId) ==
    IF \E i \in 1..Len(inf) : inf[i][1] = factionId
    THEN inf[CHOOSE i \in 1..Len(inf) : inf[i][1] = factionId][2]
    ELSE 0

\* influence.set(factionId, v): an existing key keeps its place
InfluenceSet(inf, factionId, v) ==
    IF \E i \in 1..Len(inf) : inf[i][1] = factionId
    THEN [i \in 1..Len(inf) |-> IF inf[i][1] = factionId THEN <<factionId, v>> ELSE inf[i]]
    ELSE Append(inf, <<factionId, v>>)

\* index of the entry that influences.sort((a, b) => b[1] - a[1]) puts first
\* among the entries other than skip: the sort is stable
TopIndex(inf, skip) ==
    CHOOSE i \in (1..Len(inf)) \ skip :
        \A j \in (1..Len(inf)) \ skip :
            inf[j][2] < inf[i][2] \/ (inf[j][2] = inf[i][2] /\ i <= j)

Abs(n) == IF n < 0 THEN -n ELSE n

UpdateZoneControlStatus_IgnoresContest(zc) ==
    LET inf == zc.influence
        top == inf[TopIndex(inf, {})]
        contested == Len(inf) > 1 /\ Abs(top[2] - inf[TopIndex(inf, {TopIndex(inf, {})})][2]) < 20
    IN  IF Len(inf) = 0
        THEN [zc EXCEPT !.controllingFactionId = "null", !.contested = FALSE]
        ELSE [zc EXCEPT !.contested = contested,
                        !.controllingFactionId = IF top[2] >= 60 THEN top[1] ELSE "null"]

\* updateZoneControlStatus on one ZoneControl
updateZoneControlStatus(zc) ==
    LET inf == zc.influence
        top == inf[TopIndex(inf, {})]
        contested == Len(inf) > 1 /\ Abs(top[2] - inf[TopIndex(inf, {TopIndex(inf, {})})][2]) < 20
    IN  IF Len(inf) = 0
        THEN [zc EXCEPT !.controllingFactionId = "null", !.contested = FALSE]
        ELSE [zc EXCEPT !.contested = contested,
                        !.controllingFactionId =
                            IF top[2] >= 60 /\ ~contested THEN top[1] ELSE "null"]

\* a call of updateZoneInfluence; depth is the number of its frames on the
\* call stack
ZoneCall(zoneId, factionId, delta, depth) ==
    [zoneId |-> zoneId, factionId |-> factionId, delta |-> delta, depth |-> depth]

\* the body of updateZoneInfluence with checkZoneConflicts, up to the two calls
\* checkZoneConflicts makes back into updateZoneInfluence: the zones and the
\* conflicts after it, and those calls in the order they are made
updateZoneInfluence(zs, cs, call) ==
    LET zs0 == getZoneControl(zs, call.zoneId)
        current == InfluenceOf(zs0[call.zoneId].influence, call.factionId)
        newInfluence == Max(0, Min(100, current + call.delta))
        zc == updateZoneControlStatus(
                  [zs0[call.zoneId] EXCEPT !.influence =
                       InfluenceSet(@, call.factionId, newInfluence)])
        inf == zc.influence
        a == inf[TopIndex(inf, {})]
        b == inf[TopIndex(inf, {TopIndex(inf, {})})]
        fights == /\ zc.contested
                  /\ Len(inf) >= 2
                  /\ Abs(a[2] - b[2]) < 15
                  /\ a[1] \in FactionIds
                  /\ b[1] \in FactionIds
    IN  [zones |-> MapSet(zs0, call.zoneId, zc),
         conflicts |-> IF fights
                       THEN recordConflict(cs, a[1], b[1],
                                           (Aggression[a[1]] + Aggression[b[1]]) * 5)
                       ELSE cs,
         calls |-> IF fights
                   THEN <<ZoneCall(call.zoneId, a[1], -5, call.depth + 1),
                          ZoneCall(call.zoneId, b[1], -5, call.depth + 1)>>
                   ELSE <<>>]

-----------------------------------------------------------------------------
(* City policy influence.  A CityPolicy is held with its safety level in    *)
(* thousandths, its trade tax in ten-thousandths and a policy weight in     *)
(* hundredths, so that 0.02 * weight and 0.1 * weight are whole numbers.    *)
(* The fields of the nested objects tax, guards and pvp are shared between  *)
(* a policy and its shallow copy { ...policy }.                             *)

StartWeight == 30

CityPolicy(safetyLevel, taxTrade, density, pvpOn, pvpPenalty) ==
    [safetyLevel |-> safetyLevel, taxTrade |-> taxTrade, density |-> density,
     pvpOn |-> pvpOn, pvpPenalty |-> pvpPenalty]

\* Faction.goals of the default factions, those calculateCityPolicy reads
Goals ==
    [f \in FactionIds |->
        CASE f = "merchant-guild" -> {"lower trade tax"}
          [] f = "shadow-cabal"   -> {"more pvp zones"}
          [] f = "guard-corps"    -> {"raise safety level", "raise guard density"}]

getCityPolicyInfluence(cpi, cityId) == IF cityId \in DOMAIN cpi THEN cpi[cityId] ELSE <<>>

updateCityPolicyInfluence(cpi, cityId, factionId, weightDelta) ==
    LET influences == getCityPolicyInfluence(cpi, cityId)
        known == \E i \in DOMAIN influences : influences[i].factionId = factionId
        withIt == IF known THEN influences
                  ELSE Append(influences, [factionId |-> factionId, policyWeight |-> StartWeight])
        k == CHOOSE i \in DOMAIN withIt : withIt[i].factionId = factionId
    IN  MapSet(cpi, cityId,
               [withIt EXCEPT ![k].policyWeight = Max(0, Min(100, @ + weightDelta))])

\* one pass of the forEach in calculateCityPolicy
applyInfluence(policy, influence) ==
    IF influence.factionId \notin FactionIds THEN policy
    ELSE LET goals == Goals[influence.factionId]
             weight == influence.policyWeight
             p1 == IF "lower trade tax" \in goals
                   THEN [policy EXCEPT !.taxTrade = Max(0, @ - 2 * weight)] ELSE policy
             p2 == IF "raise safety level" \in goals
                   THEN [p1 EXCEPT !.safetyLevel = Min(1000, @ + weight)] ELSE p1
             p3 == IF "raise guard density" \in goals
                   THEN [p2 EXCEPT !.density = IF @ = "low" THEN "med"
                                               ELSE IF @ = "med" THEN "high" ELSE @]
                   ELSE p2
         IN  IF "more pvp zones" \in goals
             THEN [p3 EXCEPT !.pvpOn = TRUE, !.pvpPenalty = "fine"] ELSE p3

RECURSIVE applyInfluences(_, _)
applyInfluences(policy, influences) ==
    IF influences = <<>> THEN policy
    ELSE applyInfluences(applyInfluence(policy, Head(influences)), Tail(influences))

CalculateCityPolicy_IgnoresWeight(cpi, cityId, basePolicy) ==
    LET influences == getCityPolicyInfluence(cpi, cityId)
        modifiedPolicy == applyInfluences(basePolicy,
                              [i \in DOMAIN influences |-> [influences[i] EXCEPT !.policyWeight = 100]])
    IN  IF influences = <<>> THEN [policy |-> basePolicy, base |-> basePolicy]
        ELSE [policy |-> modifiedPolicy,
              base |-> [modifiedPolicy EXCEPT !.safetyLevel = basePolicy.safetyLevel]]

\* calculateCityPolicy(city, basePolicy): the policy returned, and the object
\* basePolicy after the call: modifiedPolicy = { ...basePolicy } copies
\* safetyLevel and shares tax, guards and pvp with basePolicy
calculateCityPolicy(cpi, cityId, basePolicy) ==
    LET influences == getCityPolicyInfluence(cpi, cityId)
        modifiedPolicy == applyInfluences(basePolicy, influences)
    IN  IF influences = <<>> THEN [policy |-> basePolicy, base |-> basePolicy]
        ELSE [policy |-> modifiedPolicy,
              base |-> [modifiedPolicy EXCEPT !.safetyLevel = basePolicy.safetyLevel]]

-----------------------------------------------------------------------------
(* NPC lifecycle: NpcLifecycleManager. Date.now() and the cooldowns are in
   seconds. The schedules the code registers use no condition of type
   "event"; that branch is left out. *)

DespawnCooldown == 300
CooldownStep == 60

DailyRoutine(start, end, location) == [timeRange |-> <<start, end>>, location |-> location]

Condition(type, value) == [type |-> type, value |-> value]

\* context = [gameTime, playersInRoom, room]; room is FALSE for null
evaluateSpawnCondition(condition, context) ==
    CASE condition.type = "time" ->
            context.gameTime >= condition.value[1] /\ context.gameTime <= condition.value[2]
      [] condition.type = "playerPresence" -> context.playersInRoom >= condition.value
      [] condition.type = "roomCapacity" -> context.room /\ context.playersInRoom < condition.value
      [] OTHER -> FALSE

evaluateDespawnCondition(condition, context) ==
    CASE condition.type = "time" ->
            context.gameTime < condition.value[1] \/ context.gameTime > condition.value[2]
      [] condition.type = "playerAbsence" -> context.playersInRoom = 0
      [] condition.type = "roomEmpty" -> context.room /\ context.playersInRoom = 0
      [] OTHER -> FALSE

\* the location of the first routine entry whose window holds the hour, or "null"
RECURSIVE getTargetLocation(_, _)
getTargetLocation(hour, routine) ==
    IF routine = <<>> THEN "null"
    ELSE IF hour >= Head(routine).timeRange[1] /\ hour <= Head(routine).timeRange[2]
    THEN Head(routine).location
    ELSE getTargetLocation(hour, Tail(routine))

\* registerNpcSchedule
NpcSchedule(routine, spawnConditions, despawnConditions, t) ==
    [routine |-> routine, spawnConditions |-> spawnConditions,
     despawnConditions |-> despawnConditions, lastSeen |-> t, spawnCooldown |-> 0]

\* initializeDefaultSchedules: the market merchant
DefaultSchedule(t) ==
    NpcSchedule(<<DailyRoutine(6, 18, "market")>>,
                <<Condition("time", <<6, 18>>), Condition("playerPresence", 1)>>,
                <<Condition("time", <<18, 6>>), Condition("playerAbsence", 0)>>, t)

GeneratedNpc(npcId, location) ==
    [id |-> npcId, name |-> "Generated NPC", role |-> "citizen",
     location |-> location, style |-> "neutral"]

\* what updateSchedules sees of the world before it looks at a schedule
ScheduleContext(w, hour, npcId) ==
    LET currentLocation == IF npcId \in DOMAIN w.npcs
                           THEN NpcField(w.npcs[npcId], "location") ELSE "undefined"
        room == currentLocation \in DOMAIN w.rooms
    IN  [gameTime |-> hour, room |-> room,
         playersInRoom |-> IF room
                           THEN Cardinality({p \in DOMAIN w.players :
                                                w.players[p].location = currentLocation})
                           ELSE 0]

\* one pass of the loop of updateSchedules: the new npcs and the new schedule
updateSchedule(w, hour, npcId, schedule, t) ==
    LET present == npcId \in DOMAIN w.npcs
        context == ScheduleContext(w, hour, npcId)
        shouldDespawn == \E k \in 1..Len(schedule.despawnConditions) :
                            evaluateDespawnCondition(schedule.despawnConditions[k], context)
        shouldSpawn == \E k \in 1..Len(schedule.spawnConditions) :
                            evaluateSpawnCondition(schedule.spawnConditions[k], context)
        targetLocation == getTargetLocation(hour, schedule.routine)
        reachable == targetLocation # "null" /\ targetLocation \in DOMAIN w.rooms
        cooled == IF schedule.spawnCooldown > 0
                  THEN [schedule EXCEPT !.spawnCooldown = @ - CooldownStep]
                  ELSE schedule
    IN  IF shouldDespawn /\ present
        THEN [npcs |-> MapDel(w.npcs, npcId),
              schedule |-> [schedule EXCEPT !.lastSeen = t, !.spawnCooldown = DespawnCooldown]]
        ELSE IF ~present /\ schedule.spawnCooldown <= 0 /\ shouldSpawn /\ reachable
        THEN [npcs |-> MapSet(w.npcs, npcId, GeneratedNpc(npcId, targetLocation)),
              schedule |-> [schedule EXCEPT !.lastSeen = t]]
        ELSE IF present /\ reachable /\ targetLocation # NpcField(w.npcs[npcId], "location")
        THEN [npcs |-> [w.npcs EXCEPT ![npcId] = MapSet(@, "location", targetLocation)],
              schedule |-> cooled]
        ELSE [npcs |-> w.npcs, schedule |-> cooled]

\* NpcLifecycleManager.updateSchedules over the schedules ids
RECURSIVE updateSchedules(_, _, _, _, _)
updateSchedules(w, hour, schs, ids, t) ==
    IF ids = {} THEN [npcs |-> w.npcs, schedules |-> schs]
    ELSE LET id == CHOOSE x \in ids : TRUE
             r == updateSchedule(w, hour, id, schs[id], t)
         IN  updateSchedules([w EXCEPT !.npcs = r.npcs], hour,
                             MapSet(schs, id, r.schedule), ids \ {id}, t)

\* the time-window tests a pass over the schedule makes at the hour
TimeTests(hour, schedule) ==
    {[test |-> "spawn", window |-> schedule.spawnConditions[k].value,
      holds |-> evaluateSpawnCondition(schedule.spawnConditions[k], [gameTime |-> hour])] :
        k \in {j \in 1..Len(schedule.spawnConditions) : schedule.spawnConditions[j].type = "time"}}
    \cup
    {[test |-> "despawn", window |-> schedule.despawnConditions[k].value,
      holds |-> evaluateDespawnCondition(schedule.despawnConditions[k], [gameTime |-> hour])] :
        k \in {j \in 1..Len(schedule.despawnConditions) : schedule.despawnConditions[j].type = "time"}}
    \cup
    {[test |-> "routine", window |-> schedule.routine[k].timeRange,
      holds |-> getTargetLocation(hour, <<schedule.routine[k]>>) # "null"] :
        k \in 1..Len(schedule.routine)}

-----------------------------------------------------------------------------
(* EconomySimulator: the catalogue and the traders *)

ItemIds == {"iron-ore", "wood", "health-potion", "steel-sword", "silk"}

\* demand in thousandths, volatility in hundredths
MarketItem(basePrice, supply, demand, volatility, restockRate, maxStock) ==
    [basePrice |-> basePrice, currentPrice |-> basePrice, supply |-> supply,
     demand |-> demand, volatility |-> volatility, restockRate |-> restockRate,
     maxStock |-> maxStock]

DefaultItems ==
    [i \in ItemIds |->
        CASE i = "iron-ore"      -> MarketItem(10, 100, 500, 20, 5, 200)
          [] i = "wood"          -> MarketItem(5, 150, 600, 15, 8, 300)
          [] i = "health-potion" -> MarketItem(25, 30, 700, 30, 2, 50)
          [] i = "steel-sword"   -> MarketItem(100, 10, 400, 25, 1, 20)
          [] i = "silk"          -> MarketItem(50, 40, 300, 40, 1, 60)]

\* initializeDefaultItems: every history starts with the item's first price
InitialPriceHistory == [i \in ItemIds |-> <<DefaultItems[i].currentPrice>>]

\* multipliers in hundredths; itemIds unknown to the catalogue are skipped
registerTrader(ts, its, traderId, location, itemIds, buyMultiplier, sellMultiplier) ==
    MapSet(ts, traderId,
        [location |-> location,
         items |-> [i \in itemIds \cap DOMAIN its |->
                      [its[i] EXCEPT !.currentPrice = Round(its[i].currentPrice * sellMultiplier, 100),
                                     !.supply = FloorDiv(its[i].supply * 3, 10)]],
         buyMultiplier |-> buyMultiplier, sellMultiplier |-> sellMultiplier,
         restockCooldown |-> 0])

recordTransaction(its, itemId, quantity, type) ==
    IF itemId \notin DOMAIN its
    THEN its
    ELSE IF type = "buy"
    THEN [its EXCEPT ![itemId].demand = Min(1000, @ + quantity * 5)]
    ELSE [its EXCEPT ![itemId].demand = Max(0, @ - quantity * 2)]

\* e = [items, traders]; the result carries the new economy, the new player and success
buyItem(e, itemId, traderId, quantity, player) ==
    LET fail == [e |-> e, player |-> player, success |-> FALSE]
    IN  IF traderId \notin DOMAIN e.traders THEN fail
        ELSE IF itemId \notin DOMAIN e.traders[traderId].items THEN fail
        ELSE LET item == e.traders[traderId].items[itemId]
                 cost == Cr(item.currentPrice * quantity)
             IN  IF item.supply < quantity THEN fail
                 ELSE IF player.credits < cost THEN fail
                 ELSE [e |-> [items |-> recordTransaction(e.items, itemId, quantity, "buy"),
                              traders |-> [e.traders EXCEPT ![traderId].items[itemId] =
                                             [@ EXCEPT !.supply = @ - quantity,
                                                       !.demand = Min(1000, @ + quantity * 10)]]],
                       player |-> [player EXCEPT !.credits = @ - cost],
                       success |-> TRUE]

sellItem(e, itemId, traderId, quantity, player) ==
    LET fail == [e |-> e, player |-> player, success |-> FALSE]
    IN  IF traderId \notin DOMAIN e.traders THEN fail
        ELSE IF itemId \notin DOMAIN e.traders[traderId].items THEN fail
        ELSE LET item == e.traders[traderId].items[itemId]
                 revenue == Cr(Round(item.currentPrice * e.traders[traderId].buyMultiplier * quantity, 100))
             IN  [e |-> [items |-> recordTransaction(e.items, itemId, quantity, "sell"),
                         traders |-> [e.traders EXCEPT ![traderId].items[itemId] =
                                        [@ EXCEPT !.supply = Min(item.maxStock, item.supply + quantity),
                                                  !.demand = Max(0, @ - quantity * 5)]]],
                  player |-> [player EXCEPT !.credits = @ + revenue],
                  success |-> TRUE]

(* ---- the economy tick ---- *)

HistoryCap == 50
RestockEvery == 5

\* JavaScript numbers that are not whole are kept as exact fractions [n, d], d > 0
RECURSIVE Gcd(_, _)
Gcd(a, b) == IF b = 0 THEN a ELSE Gcd(b, a % b)

Frac(n, d) ==
    LET g == Gcd(Abs(n), d)
    IN  [n |-> n \div g, d |-> d \div g]

FracMul(x, y) ==
    LET a == Frac(x.n, y.d)
        b == Frac(y.n, x.d)
    IN  [n |-> a.n * b.n, d |-> a.d * b.d]

FracSub(x, y) == Frac(x.n * y.d - y.n * x.d, x.d * y.d)

FracAdd(x, y) == Frac(x.n * y.d + y.n * x.d, x.d * y.d)

\* Math.round of a fraction
FracRound(x) == Round(x.n, x.d)

\* an EconomicEvent: multiplier in hundredths, remaining in ticks
EconomicEvent(type, affectedItems, multiplier, duration) ==
    [type |-> type, affectedItems |-> affectedItems, multiplier |-> multiplier,
     duration |-> duration, remaining |-> duration]

triggerEconomicEvent(evs, type, affectedItems, multiplier, duration) ==
    Append(evs, EconomicEvent(type, affectedItems, multiplier, duration))

\* the product of the multipliers of the events that affect the item
RECURSIVE getEventMultiplier(_, _)
getEventMultiplier(evs, itemId) ==
    IF evs = <<>> THEN Frac(1, 1)
    ELSE LET rest == getEventMultiplier(Tail(evs), itemId)
         IN  IF itemId \in Head(evs).affectedItems
             THEN FracMul(Frac(Head(evs).multiplier, 100), rest)
             ELSE rest

\* the new currentPrice of the item
updateItemPrice(item, evs, itemId) ==
    LET supplyRatio == Frac(item.supply, item.maxStock)
        demandFactor == Frac(item.demand, 1000)
        priceChange == FracMul(Frac(item.volatility, 100), FracSub(demandFactor, supplyRatio))
        newPrice == FracMul(Frac(item.basePrice, 1), FracAdd(Frac(1, 1), priceChange))
    IN  Max(1, FracRound(FracMul(newPrice, getEventMultiplier(evs, itemId))))

\* the new supply of the item
restockItem(item) ==
    IF item.supply < item.maxStock
    THEN Min(item.maxStock, item.supply + item.restockRate)
    ELSE item.supply

recordPriceHistory(hist, itemId, price) ==
    LET pushed == Append(IF itemId \in DOMAIN hist THEN hist[itemId] ELSE <<>>, price)
    IN  MapSet(hist, itemId, IF Len(pushed) > HistoryCap THEN Tail(pushed) ELSE pushed)

\* its: the catalogue after the item loop of the same tick
restockTrader(trader, its) ==
    [trader EXCEPT !.items =
        [i \in DOMAIN trader.items |->
            IF i \in DOMAIN its
            THEN [trader.items[i] EXCEPT
                    !.currentPrice = Round(its[i].currentPrice * trader.sellMultiplier, 100),
                    !.supply = Min(trader.items[i].maxStock,
                                   trader.items[i].supply + FloorDiv(its[i].restockRate, 2))]
            ELSE trader.items[i]]]

ProcessEvents_KeepsExpired(evs) ==
    [k \in 1..Len(evs) |-> [evs[k] EXCEPT !.remaining = @ - 1]]

\* splice out the events whose remaining reaches 0
RECURSIVE processEvents(_)
processEvents(evs) ==
    IF evs = <<>> THEN <<>>
    ELSE LET ev == [Head(evs) EXCEPT !.remaining = @ - 1]
         IN  (IF ev.remaining <= 0 THEN <<>> ELSE <<ev>>) \o processEvents(Tail(evs))

Tick_RestocksBeforePricing(e) ==
    LET stocked == [i \in DOMAIN e.items |-> [e.items[i] EXCEPT !.supply = restockItem(e.items[i])]]
    IN  [e EXCEPT !.items = [i \in DOMAIN stocked |->
                               [stocked[i] EXCEPT !.currentPrice =
                                    updateItemPrice(stocked[i], e.activeEvents, i)]],
                  !.activeEvents = processEvents(@)]

\* EconomySimulator.tick(); e = [items, traders, activeEvents, priceHistory]
tick(e) ==
    LET its == [i \in DOMAIN e.items |->
                  [e.items[i] EXCEPT !.currentPrice = updateItemPrice(e.items[i], e.activeEvents, i),
                                     !.supply = restockItem(e.items[i])]]
        hist == [i \in DOMAIN e.priceHistory \cup DOMAIN its |->
                   IF i \in DOMAIN its
                   THEN recordPriceHistory(e.priceHistory, i, its[i].currentPrice)[i]
                   ELSE e.priceHistory[i]]
        trs == [t \in DOMAIN e.traders |->
                  IF e.traders[t].restockCooldown <= 0
                  THEN [restockTrader(e.traders[t], its) EXCEPT !.restockCooldown = RestockEvery]
                  ELSE [e.traders[t] EXCEPT !.restockCooldown = @ - 1]]
    IN  [items |-> its, traders |-> trs, activeEvents |-> processEvents(e.activeEvents),
         priceHistory |-> hist]

-----------------------------------------------------------------------------
(* Inputs of the engine, the jobs, the factions and the traders *)

Plan(action, target, amount, notes) ==
    [action |-> action, target |-> target, amount |-> amount, notes |-> notes]

\* a missing target or notes is "none"; a missing amount is 0
PlanInputs ==
    {Plan("move", t, 0, "none") : t \in MoveTargets}
    \cup {Plan("attack", t, 0, "none") : t \in {"none", "n1", "n2", "player:p2", "player:ghost"}}
    \cup {Plan("withdraw", "none", a, "none") : a \in {-5, 0, 30, 99, 500}}
    \cup {Plan("trade", "none", 20, "none"), Plan("trade", "n2", 0, "none"),
          Plan("trade", "n2", 20, "none"), Plan("trade", "n2", 500, "none"),
          Plan("trade", "n2", 3, "n2"), Plan("trade", "n2", 3, "apple"),
          Plan("trade", "n1", 20, "none")}
    \cup {Plan(a, "none", 0, "none") : a \in {"observe", "die", "respawn", "improv", "dance"}}

\* the least and the greatest value of Math.floor(Math.random() * 30) in
\* actions.ts and of Math.floor(Math.random() * 20) in part_003
Rolls(tbl) == IF tbl = "actions.ts" THEN {0, 29} ELSE {0, 19}

\* the random draws a plan consumes
Draws(tbl, plan) ==
    IF plan.action = "attack"
    THEN {[roll |-> r, loot |-> l] : r \in Rolls(tbl), l \in BOOLEAN}
    ELSE {[roll |-> 0, loot |-> FALSE]}

JobInputs == JobIds \cup {"moonlight"}

ReputationPlayers == {"p1"}
FactionInputs == {"merchant-guild", "shadow-cabal", "nobody"}
DeltaInputs == {-60, 5, 60}
ActionTypeInputs == {"trade", "attack", "quest", "theft", "bribe", "gift"}

\* the policy of the default city, and a quiet city near the bounds
BasePolicyInputs ==
    {[c \in {"bastion", "keep"} |->
        IF c = "bastion" THEN CityPolicy(600, 500, "med", TRUE, "bounty")
        ELSE CityPolicy(950, 100, "low", FALSE, "none")]}

PolicyCityInputs == {"bastion", "keep"}
PolicyFactionInputs == FactionIds \cup {"free-traders"}
WeightDeltaInputs == {0, 20, 70, -50}

ZoneInputs == {"market", "ruins"}
InfluenceDeltaInputs == {65, 50, 60, -20}

\* setGameTime takes any number of hours
HourInputs == 0..23 \cup {30}

TraderIds == {"t1"}
BuyMultiplierInputs == {70, 130}
SellMultiplierInputs == {80, 150}
TradeItemInputs == {"iron-ore", "silk", "pearl"}
QuantityInputs == {-20, 0, 1, 5}

\* the events onWorldEvent triggers (mining, war, trade boom), a crash that
\* lasts one tick and a shortage that lasts three
EconomicEventInputs ==
    {EconomicEvent("supply-shock", {"iron-ore"}, 150, 10),
     EconomicEvent("demand-spike", {"steel-sword", "health-potion"}, 130, 8),
     EconomicEvent("trade-boom", ItemIds, 90, 15),
     EconomicEvent("market-crash", {"wood", "silk"}, 1, 1),
     EconomicEvent("supply-shock", {"iron-ore", "silk"}, 120, 3)}

-----------------------------------------------------------------------------
(* The session endpoints of the server *)

\* the part of orchestrateTick that runs before its first await: nothing with
\* no player, else the heat decay (the LLM tasks write when their replies arrive)
orchestrateTick(s) ==
    IF DOMAIN s.players = {} THEN s
    ELSE [s EXCEPT !.players = decayHeatForAllPlayers(@, HeatDecay)]

\* buildPlayerStatus(playerId): the store after the call and the reply
buildPlayerStatus(s, pid) ==
    LET s1 == [s EXCEPT !.players = ensurePlayer(@, pid)]
        me == s1.players[pid]
        hasRoom == me.location \in DOMAIN s1.rooms
        heat == Max(0, Min(100, me.heat))
    IN  [s |-> s1,
         ui |-> [credits |-> me.credits, health |-> me.health, hunger |-> me.hunger,
                 heat |-> heat, wantedLevel |-> computeWantedLevel(heat),
                 status |-> me.status, location |-> me.location,
                 city |-> IF hasRoom THEN getCityForRoom(s1.rooms, s1.cities, me.location)
                          ELSE "none",
                 npcsHere |-> IF hasRoom
                              THEN {n \in DOMAIN s1.npcs :
                                       NpcField(s1.npcs[n], "location") = me.location}
                              ELSE {},
                 playersHere |-> IF hasRoom
                                 THEN {q \in DOMAIN s1.players :
                                          s1.players[q].location = me.location}
                                 ELSE {}]]

\* the reply of a request: the store after it, the HTTP status, the error text
Reply(s, status, error) == [s |-> s, status |-> status, error |-> error]

ApplyRequest_EnsuresPlayerFirst(tbl, s, pid, plan, rnd) ==
    LET action == Trim(plan.action)
        s0 == [s EXCEPT !.players = ensurePlayer(@, pid)]
        r == applyAction(tbl, s0, pid, [plan EXCEPT !.action = action], rnd)
    IN  IF plan.action = "none" \/ action = ""
        THEN Reply(s, 400, "plan.action is required")
        ELSE IF ~hasAction(tbl, action) THEN Reply(s0, 400, "unknown action")
        ELSE IF r.kind = "error" THEN Reply(r.s, 400, r.summary)
        ELSE Reply(buildPlayerStatus(orchestrateTick(r.s), pid).s, 200, "")

\* POST /api/session/:playerId/apply with body plan; an absent action is "none"
ApplyRequest(tbl, s, pid, plan, rnd) ==
    LET action == Trim(plan.action)
        r == applyAction(tbl, s, pid, [plan EXCEPT !.action = action], rnd)
    IN  IF plan.action = "none" \/ action = ""
        THEN Reply(s, 400, "plan.action is required")
        ELSE IF ~hasAction(tbl, action) THEN Reply(s, 400, "unknown action")
        ELSE IF r.kind = "error" THEN Reply(r.s, 400, r.summary)
        ELSE Reply(buildPlayerStatus(orchestrateTick(r.s), pid).s, 200, "")

\* improviseOutcome after the collaborator's reply: the clamped deltas of
\* out.statePatch (a field that is no number is absent) and out.event, pushed
\* with stamp evt (0: the reply carries no event)
improviseOutcome(s, pid, statePatch, evt) ==
    LET me == s.players[pid]
        health == IF "healthDelta" \in DOMAIN statePatch
                  THEN clamp(me.health + statePatch.healthDelta, 0, 100) ELSE me.health
        patched == [me EXCEPT
                      !.health = health,
                      !.status = IF "healthDelta" \in DOMAIN statePatch
                                 THEN (IF health = 0 THEN "down" ELSE "ok") ELSE @,
                      !.credits = IF "creditsDelta" \in DOMAIN statePatch
                                  THEN Max(0, @ + Cr(statePatch.creditsDelta)) ELSE @,
                      !.hunger = IF "hungerDelta" \in DOMAIN statePatch
                                 THEN clamp(@ + statePatch.hungerDelta, 0, 100) ELSE @]
        s1 == SetPlayer(s, pid, patched)
    IN  IF evt = 0 THEN s1 ELSE [s1 EXCEPT !.events = pushEvent(@, evt)]

\* POST /api/session/:playerId/act once the planner has answered with plan; the
\* server of index.ts resolves every plan, the server of part_004 improvises
\* the verbs without a handler and kicks the orchestrator
ActRequest(store, tbl, s, pid, plan, statePatch, evt, rnd) ==
    LET s0 == [s EXCEPT !.players = ensurePlayer(@, pid)]
        r == applyAction(tbl, s0, pid, plan, rnd)
    IN  IF store = "state.ts" \/ hasAction(tbl, plan.action)
        THEN IF r.kind = "error" THEN Reply(r.s, 500, r.summary)
             ELSE IF store = "state.ts" THEN Reply(r.s, 200, "")
             ELSE Reply(buildPlayerStatus(orchestrateTick(r.s), pid).s, 200, "")
        ELSE Reply(buildPlayerStatus(
                       orchestrateTick(improviseOutcome(s0, pid, statePatch, evt)), pid).s,
                   200, "")

\* the plans the planner answers with, and the patches of the improviser
ActInputs ==
    {Plan("attack", "n1", 0, "none"), Plan("observe", "none", 0, "none"),
     Plan("dance", "none", 0, "none")}

StatePatchInputs ==
    {EmptyMap, [healthDelta |-> -90],
     [healthDelta |-> 15, creditsDelta |-> -500, hungerDelta |-> -120]}

\* the talk handler: conversationHistory keeps the last entries
ConversationCap == 10

\* normalizeNpcMem(holder[key]); mem?.x ?? default for the three fields with a
\* default, the two optional fields as they are, any other field dropped
NpcMemoryFields ==
    {"lastInteraction", "conversationHistory", "dialogueState", "questProgress",
     "playerReputation"}

NewMemory == [lastInteraction |-> 0, conversationHistory |-> <<>>, dialogueState |-> EmptyMap]

normalizeNpcMem(holder, key) ==
    IF key \in DOMAIN holder
    THEN Spread(NewMemory,
                [f \in DOMAIN holder[key] \cap NpcMemoryFields |-> holder[key][f]])
    ELSE NewMemory

\* player.npcMemory ?? {}
NpcMemoryOf(player) == IF "npcMemory" \in DOMAIN player THEN player["npcMemory"] ELSE EmptyMap

\* mergedPlayerMem / mergedNpcMem: the memory read before the await, the delta
\* of the reply, and the three fields written over both
mergeMemory(memory, delta, convEntry, t) ==
    Spread(Spread(memory, delta),
           [lastInteraction |-> t,
            conversationHistory |->
                TakeLast(Append(memory["conversationHistory"], convEntry), ConversationCap),
            dialogueState |->
                Spread(memory["dialogueState"],
                       IF "dialogueState" \in DOMAIN delta THEN delta["dialogueState"]
                       ELSE EmptyMap)])

\* JSON.stringify({ input, reply })
ConvEntry(input, reply) == <<input, reply>>

\* POST /api/npc/:npcId/talk up to its await: the reply sent at once, or
\* status 0 and the memories the request goes on with; the server of index.ts
\* looks at no player and keeps no memory
TalkRequest(store, s, pid, npcId, input) ==
    LET ps == ensurePlayer(s.players, pid)
        s0 == [s EXCEPT !.players = ps]
        location == IF npcId \in DOMAIN s.npcs THEN NpcField(s.npcs[npcId], "location")
                    ELSE "undefined"
    IN  IF npcId \notin DOMAIN s.npcs
        THEN [s |-> s, status |-> 404, error |-> "NPC not found"]
        ELSE IF Trim(input) = ""
        THEN [s |-> s, status |-> 400, error |-> "input is required"]
        ELSE IF store = "state.ts"
        THEN [s |-> s, status |-> 0, error |-> "",
              talk |-> [npcId |-> npcId, pid |-> pid, input |-> input,
                        npcMemory |-> NewMemory, playerMemory |-> NewMemory,
                        detached |-> FALSE, missed |-> <<>>]]
        ELSE IF location \notin {"undefined", ""} /\ location # ps[pid].location
        THEN [s |-> s0, status |-> 400, error |-> "not where the NPC is"]
        ELSE [s |-> s0, status |-> 0, error |-> "",
              talk |-> [npcId |-> npcId, pid |-> pid, input |-> input,
                        npcMemory |-> normalizeNpcMem(s.npcs[npcId], "memory"),
                        playerMemory |-> normalizeNpcMem(NpcMemoryOf(ps[pid]), npcId),
                        detached |-> FALSE, missed |-> <<>>]]

\* the same request after its await: reply is what completeJson resolved to
TalkResult(store, tbl, s, talk, reply, t, rnd) ==
    LET convEntry == ConvEntry(talk.input, reply.reply)
        player == s.players[talk.pid]
        mergedPlayerMem == mergeMemory(talk.playerMemory, reply.playerMemoryDelta, convEntry, t)
        mergedNpcMem == mergeMemory(talk.npcMemory, reply.npcMemoryDelta, convEntry, t)
        ps == MapSet(s.players, talk.pid,
                     MapSet(player, "npcMemory",
                            MapSet(NpcMemoryOf(player), talk.npcId, mergedPlayerMem)))
        ns == IF talk.detached \/ talk.npcId \notin DOMAIN s.npcs THEN s.npcs
              ELSE MapSet(s.npcs, talk.npcId,
                          MapSet(s.npcs[talk.npcId], "memory", mergedNpcMem))
        s1 == [s EXCEPT !.players = ps, !.npcs = ns]
        r == applyAction(tbl, s1, talk.pid, reply.action, rnd)
    IN  IF store = "state.ts" THEN Reply(s, 200, "")
        ELSE IF reply.action.action # "none" /\ hasAction(tbl, reply.action.action)
        THEN IF r.kind = "error" THEN Reply(r.s, 500, r.summary) ELSE Reply(r.s, 200, "")
        ELSE Reply(s1, 200, "")

\* what the player says, and what the collaborator answers
TalkInputs == {"hello", "any news?", "  "}

TalkReplyInputs ==
    {[reply |-> "well met", npcMemoryDelta |-> EmptyMap, playerMemoryDelta |-> EmptyMap,
      action |-> Plan("none", "none", 0, "none")],
     [reply |-> "follow me",
      npcMemoryDelta |-> [dialogueState |-> [mood |-> "warm"], questProgress |-> "started",
                          conversationHistory |-> <<>>],
      playerMemoryDelta |-> [dialogueState |-> [met |-> "yes"]],
      action |-> Plan("move", "market", 0, "none")],
     [reply |-> "", npcMemoryDelta |-> EmptyMap, playerMemoryDelta |-> EmptyMap,
      action |-> Plan("dance", "none", 0, "none")]}

\* NPCs to talk to: one that has talked before, one that has not
TalkNpcInputs ==
    {[id |-> "n1", name |-> "Ulric", role |-> "guard", location |-> "square",
      memory |-> [lastInteraction |-> StartTime - 60,
                  conversationHistory |-> [i \in 1..9 |-> ConvEntry("hello", "well met")],
                  dialogueState |-> EmptyMap]],
     [id |-> "n1", name |-> "Ulric", role |-> "guard", location |-> "square"],
     [id |-> "n2", name |-> "Elara", role |-> "merchant", location |-> "market"]}

\* the plans posted to /apply: well-formed ones, and actions that need trimming
ApplyInputs ==
    {Plan("move", t, 0, "none") : t \in {"market", "nowhere"}}
    \cup {Plan("withdraw", "none", a, "none") : a \in {0, 30}}
    \cup {Plan(a, "none", 0, "none") :
             a \in {"observe", " observe ", "die", "improv", "dance", "dance ", "  ", "none"}}

-----------------------------------------------------------------------------
(* The running server: one store, one engine, the faction and economy       *)
(* singletons.                                                              *)

\* new GameEngine(): loadDefaultWorld(), nothing else populated
Init ==
    /\ players = EmptyMap
    /\ rooms = DefaultRooms
    /\ cities = DefaultCities
    /\ npcs = EmptyMap
    /\ events = <<>>
    /\ bugReports = <<>>
    /\ glossary = EmptyMap
    /\ nextEvt = 1
    /\ nextBug = 1
    /\ table \in TableIds
    /\ build = table
    /\ factionRep = EmptyMap
    /\ conflicts = <<>>
    /\ zoneControls = EmptyMap
    /\ zoneCalls = <<>>
    /\ cityPolicyInfluences = EmptyMap
    /\ basePolicies \in BasePolicyInputs
    /\ items = DefaultItems
    /\ traders = EmptyMap
    /\ activeEvents = <<>>
    /\ priceHistory = InitialPriceHistory
    /\ ticks = 0
    /\ restockedAt = EmptyMap
    /\ tasks = EmptyMap
    /\ talks = EmptyMap
    /\ schedules = EmptyMap
    /\ gameTime = 0
    /\ updates = 0
    /\ cycle = "idle"
    /\ now = StartTime
    /\ steps = 0
    /\ last = [op |-> "init"]

\* writes the store value s back to the variables
Commit(s) ==
    /\ players' = s.players
    /\ rooms' = s.rooms
    /\ cities' = s.cities
    /\ npcs' = s.npcs
    /\ events' = s.events
    /\ glossary' = s.glossary
    /\ bugReports' = s.bugReports

Step == steps + ticks + updates < MaxSteps /\ steps' = steps + 1

Others == <<engineVars, factionVars, economyVars, tickVars, scheduleVars, talks, now>>

\* the same without the tasks, for the operations that put a new object under
\* an NPC id
OthersButTasks == <<engineVars, factionVars, economyVars, scheduleVars, cycle, now>>

EnsurePlayer ==
    \E pid \in PlayerIds :
        /\ Step
        /\ players' = ensurePlayer(players, pid)
        /\ last' = [op |-> "ensurePlayer", pid |-> pid]
        /\ UNCHANGED <<rooms, cities, npcs, events, bugReports, glossary, nextEvt, nextBug, Others>>

ApplyWorld ==
    \E spec \in WorldSpecInputs :
        /\ Step
        /\ Commit(applyWorld(Store, spec))
        /\ last' = [op |-> "applyWorld", spec |-> spec]
        /\ UNCHANGED <<nextEvt, nextBug, Others>>

MergeWorld ==
    \E spec \in WorldSpecInputs :
        /\ Step
        /\ Commit(mergeWorld(Store, spec))
        /\ last' = [op |-> "mergeWorld", spec |-> spec]
        /\ UNCHANGED <<nextEvt, nextBug, Others>>

UpsertNpcAmong(inputs) ==
    \E npc \in inputs :
        /\ Step
        /\ npcs' = UpsertNpcOf(StoreOf(build), npcs, npc)
        /\ tasks' = Detach(tasks, {npc["id"]})
        /\ talks' = DetachTalks(talks, {npc["id"]})
        /\ last' = [op |-> "upsertNpc", npc |-> npc]
        /\ UNCHANGED <<players, rooms, cities, events, bugReports, glossary, nextEvt, nextBug,
                       OthersButTasks>>

UpsertNpc == UpsertNpcAmong(NpcInputs)

UpsertNpcTalk == UpsertNpcAmong(TalkNpcInputs)

UpdateNpcsFromSnapshot ==
    \E list \in NpcListInputs :
        /\ Step
        /\ npcs' = updateNpcsFromSnapshot(npcs, rooms, list)
        /\ tasks' = Detach(tasks, {list[i]["id"] : i \in {j \in DOMAIN list :
                                        {"id", "name", "role"} \subseteq DOMAIN list[j]}})
        /\ talks' = DetachTalks(talks, {list[i]["id"] : i \in {j \in DOMAIN list :
                                        {"id", "name", "role"} \subseteq DOMAIN list[j]}})
        /\ last' = [op |-> "updateNpcsFromSnapshot", list |-> list]
        /\ UNCHANGED <<players, rooms, cities, events, bugReports, glossary, nextEvt, nextBug,
                       OthersButTasks>>

SyncFromSnapshot ==
    \E snapshot \in SyncInputs :
        /\ Step
        /\ rooms' = syncFromSnapshot(rooms, snapshot)
        /\ last' = [op |-> "syncFromSnapshot", snapshot |-> snapshot]
        /\ UNCHANGED <<players, cities, npcs, events, bugReports, glossary, nextEvt, nextBug, Others>>

\* one task of npcTick: the model's reply names a room to move to and may carry an event
NpcTick ==
    \E id \in DOMAIN npcs, moveTo \in MoveTargets, withEvent \in BOOLEAN :
        /\ Step
        /\ withEvent => nextEvt <= MaxEvtPush
        /\ npcs' = npcAutonomyMove(npcs, rooms, id, moveTo)
        /\ events' = IF withEvent THEN pushEvent(events, nextEvt) ELSE events
        /\ nextEvt' = IF withEvent THEN nextEvt + 1 ELSE nextEvt
        /\ last' = [op |-> "npcTick", id |-> id, moveTo |-> moveTo]
        /\ UNCHANGED <<players, rooms, cities, bugReports, glossary, nextBug, Others>>

\* events are numbered in push order
PushEvent ==
    /\ nextEvt <= MaxEvtPush
    /\ events' = pushEvent(events, nextEvt)
    /\ nextEvt' = nextEvt + 1
    /\ last' = [op |-> "pushEvent", evt |-> nextEvt]
    /\ UNCHANGED <<players, rooms, cities, npcs, bugReports, glossary, nextBug, steps, Others>>

\* bug reports are numbered in push order
PushBugReport ==
    /\ nextBug <= MaxBugPush
    /\ bugReports' = pushBugReport(bugReports, nextBug)
    /\ nextBug' = nextBug + 1
    /\ last' = [op |-> "pushBugReport", report |-> nextBug]
    /\ UNCHANGED <<players, rooms, cities, npcs, events, glossary, nextEvt, steps, Others>>

\* whether some pending report mentions the market / the dialogue is the
\* reports' text, which the model leaves open
ProcessBugReports ==
    \E market \in BOOLEAN, dialogue \in BOOLEAN :
        /\ Step
        /\ (market \/ dialogue) => bugReports # <<>>
        /\ Commit(processBugReports(Store, market, dialogue))
        /\ tasks' = IF market THEN Detach(tasks, {MarketMerchant["id"]}) ELSE tasks
        /\ talks' = IF market THEN DetachTalks(talks, {MarketMerchant["id"]}) ELSE talks
        /\ last' = [op |-> "processBugReports"]
        /\ UNCHANGED <<nextEvt, nextBug, OthersButTasks>>

LoadPersistedState ==
    \E data \in LoadInputs :
        /\ Step
        /\ Commit(loadPersistedState(Store, data))
        /\ tasks' = IF data.null THEN tasks ELSE Detach(tasks, DOMAIN tasks)
        /\ talks' = IF data.null THEN talks ELSE DetachTalks(talks, {talks[k].npcId : k \in DOMAIN talks})
        /\ last' = [op |-> "loadPersistedState", data |-> data]
        /\ UNCHANGED <<nextEvt, nextBug, OthersButTasks>>

\* shutdown (saveStateToDisk) and the next start of the server
\* (new GameEngine, loadStateFromDisk); the singletons start afresh
Restart ==
    /\ Step
    /\ Commit(loadPersistedState(DefaultStore, JsonFile(toPersistedState(Store))))
    /\ factionRep' = EmptyMap
    /\ conflicts' = <<>>
    /\ zoneControls' = EmptyMap
    /\ zoneCalls' = <<>>
    /\ cityPolicyInfluences' = EmptyMap
    /\ items' = DefaultItems
    /\ traders' = EmptyMap
    /\ activeEvents' = <<>>
    /\ priceHistory' = InitialPriceHistory
    /\ ticks' = 0
    /\ restockedAt' = EmptyMap
    /\ last' = [op |-> "restart"]
    /\ tasks' = EmptyMap
    /\ talks' = EmptyMap
    /\ cycle' = "idle"
    /\ schedules' = EmptyMap
    /\ gameTime' = 0
    /\ updates' = 0
    /\ UNCHANGED <<nextEvt, nextBug, table, build, basePolicies, now>>

\* GameEngine.applyAction with a plan of plans and the random draws it consumes
ResolveAmong(plans) ==
    \E pid \in PlayerIds, plan \in plans :
        \E rnd \in Draws(table, plan) :
            LET r == applyAction(table, Store, pid, plan, rnd)
            IN  /\ Step
                /\ Commit(r.s)
                /\ last' = [op |-> "resolve", pid |-> pid, plan |-> plan,
                            kind |-> r.kind, summary |-> r.summary]
                /\ UNCHANGED <<nextEvt, nextBug, Others>>

Resolve == ResolveAmong(PlanInputs)

\* walking between rooms
ResolveMove == ResolveAmong({plan \in PlanInputs : plan.action = "move"})

\* the plans that can touch a reputation
ResolveCombat == ResolveAmong({plan \in PlanInputs : plan.action \in {"attack", "die"}})

\* POST /job: ensurePlayer, then runJob
RunJob ==
    \E pid \in PlayerIds, jobId \in JobInputs :
        LET s1 == [Store EXCEPT !.players = ensurePlayer(@, pid)]
            r == runJob(s1, pid, jobId, now)
        IN  /\ Step
            /\ Commit(r.s)
            /\ last' = [op |-> "runJob", pid |-> pid, jobId |-> jobId,
                        kind |-> r.kind, summary |-> r.summary, wanted |-> r.wanted]
            /\ UNCHANGED <<nextEvt, nextBug, Others>>

DecayHeat ==
    /\ Step
    /\ players' = decayHeatForAllPlayers(players, HeatDecay)
    /\ last' = [op |-> "decayHeat"]
    /\ UNCHANGED <<rooms, cities, npcs, events, bugReports, glossary, nextEvt, nextBug, Others>>

\* a minute passes
AdvanceClock ==
    /\ Step
    /\ now' = now + 60
    /\ last' = [op |-> "advanceClock"]
    /\ UNCHANGED <<storeVars, engineVars, talks, scheduleVars, tickVars, factionVars, economyVars>>

UpdatePlayerReputation ==
    \E pid \in ReputationPlayers, fid \in FactionInputs, delta \in DeltaInputs,
       type \in ActionTypeInputs :
        /\ Step
        /\ factionRep' = updatePlayerReputation(factionRep, pid, fid, delta, type)
        /\ conflicts' = triggerFactionReaction(conflicts, fid,
                                               calculateReputationDelta(delta, type, fid))
        /\ last' = [op |-> "updatePlayerReputation", pid |-> pid, fid |-> fid]
        /\ UNCHANGED <<storeVars, engineVars, talks, scheduleVars, tickVars, economyVars, policyVars, zoneControls, zoneCalls, now>>

\* FactionSystem.updateZoneInfluence(zoneId, factionId, delta), called while no
\* other call is running, up to its return or its first nested call
UpdateZoneInfluence ==
    \E zoneId \in ZoneInputs, fid \in FactionInputs, delta \in InfluenceDeltaInputs :
        LET r == updateZoneInfluence(zoneControls, conflicts, ZoneCall(zoneId, fid, delta, 1))
        IN  /\ Step
            /\ zoneCalls = <<>>
            /\ zoneControls' = r.zones
            /\ conflicts' = r.conflicts
            /\ zoneCalls' = r.calls
            /\ last' = [op |-> "updateZoneInfluence", zoneId |-> zoneId, fid |-> fid,
                        state |-> IF r.calls = <<>> THEN "returned" ELSE "running",
                        after |-> r.zones[zoneId],
                        records |-> IF r.calls = <<>> THEN 0 ELSE 1]
            /\ UNCHANGED <<storeVars, engineVars, talks, scheduleVars, tickVars, economyVars, policyVars, factionRep, now>>

\* the next nested call of updateZoneInfluence; it raises a RangeError, which
\* ends every pending call and leaves the writes made so far, when the call
\* stack is exhausted
NestedUpdateZoneInfluence ==
    /\ zoneCalls # <<>>
    /\ LET call == Head(zoneCalls)
           r == updateZoneInfluence(zoneControls, conflicts, call)
       IN  IF call.depth > StackDepth
           THEN /\ zoneCalls' = <<>>
                /\ last' = [last EXCEPT !.state = "thrown"]
                /\ UNCHANGED <<zoneControls, conflicts>>
           ELSE /\ zoneControls' = r.zones
                /\ conflicts' = r.conflicts
                /\ zoneCalls' = r.calls \o Tail(zoneCalls)
                /\ last' = [last EXCEPT !.state =
                                            IF zoneCalls' = <<>> THEN "returned" ELSE "running",
                                         !.records = IF r.calls = <<>> THEN @ ELSE @ + 1]
    /\ UNCHANGED <<storeVars, engineVars, talks, scheduleVars, tickVars, economyVars, policyVars, factionRep, now, steps>>

\* initializeDefaultSchedules(manager)
InitializeDefaultSchedules ==
    /\ Step
    /\ schedules' = MapSet(schedules, "market-merchant", DefaultSchedule(now))
    /\ last' = [op |-> "initializeDefaultSchedules"]
    /\ UNCHANGED <<storeVars, engineVars, talks, factionVars, economyVars, tickVars, gameTime, updates, now>>

\* NpcLifecycleManager.setGameTime(hours)
SetGameTime ==
    \E hours \in HourInputs :
        /\ gameTime' = hours % 24
        /\ last' = [op |-> "setGameTime", hours |-> hours]
        /\ UNCHANGED <<storeVars, engineVars, talks, factionVars, economyVars, tickVars, schedules,
                       updates, now, steps>>

\* NpcLifecycleManager.updateSchedules(world)
UpdateSchedules ==
    LET r == updateSchedules(Store, gameTime, schedules, DOMAIN schedules, now)
    IN  /\ updates < MaxUpdates
        /\ updates' = updates + 1
        /\ npcs' = r.npcs
        /\ schedules' = r.schedules
        /\ tasks' = Detach(tasks, {id \in DOMAIN schedules :
                                      (id \in DOMAIN npcs) # (id \in DOMAIN r.npcs)})
        /\ talks' = DetachTalks(talks, {id \in DOMAIN schedules :
                                      (id \in DOMAIN npcs) # (id \in DOMAIN r.npcs)})
        /\ last' = [op |-> "updateSchedules", hour |-> gameTime,
                    tests |-> UNION {TimeTests(gameTime, schedules[id]) : id \in DOMAIN schedules}]
        /\ UNCHANGED <<players, rooms, cities, events, bugReports, glossary, nextEvt, nextBug,
                       engineVars, factionVars, economyVars, cycle, gameTime, now, steps>>

Economy == [items |-> items, traders |-> traders]

RegisterTrader ==
    \E tid \in TraderIds, bm \in BuyMultiplierInputs, sm \in SellMultiplierInputs :
        /\ Step
        /\ traders' = registerTrader(traders, items, tid, "market", TradeItemInputs, bm, sm)
        /\ restockedAt' = MapDel(restockedAt, tid)
        /\ last' = [op |-> "registerTrader", tid |-> tid]
        /\ UNCHANGED <<storeVars, engineVars, talks, scheduleVars, tickVars, factionVars, items, activeEvents,
                       priceHistory, ticks, now>>

BuyItem ==
    \E pid \in DOMAIN players, tid \in TraderIds \cup {"t9"},
       itemId \in TradeItemInputs, quantity \in QuantityInputs :
        LET r == buyItem(Economy, itemId, tid, quantity, players[pid])
        IN  /\ Step
            /\ items' = r.e.items
            /\ traders' = r.e.traders
            /\ players' = MapSet(players, pid, r.player)
            /\ last' = [op |-> "buyItem", pid |-> pid, tid |-> tid, itemId |-> itemId,
                        quantity |-> quantity, success |-> r.success]
            /\ UNCHANGED <<rooms, cities, npcs, events, bugReports, glossary,
                           nextEvt, nextBug, engineVars, talks, scheduleVars, tickVars, factionVars,
                           activeEvents, priceHistory, ticks, restockedAt, now>>

SellItem ==
    \E pid \in DOMAIN players, tid \in TraderIds \cup {"t9"},
       itemId \in TradeItemInputs, quantity \in QuantityInputs :
        LET r == sellItem(Economy, itemId, tid, quantity, players[pid])
        IN  /\ Step
            /\ items' = r.e.items
            /\ traders' = r.e.traders
            /\ players' = MapSet(players, pid, r.player)
            /\ last' = [op |-> "sellItem", pid |-> pid, tid |-> tid, itemId |-> itemId,
                        quantity |-> quantity, success |-> r.success]
            /\ UNCHANGED <<rooms, cities, npcs, events, bugReports, glossary,
                           nextEvt, nextBug, engineVars, talks, scheduleVars, tickVars, factionVars,
                           activeEvents, priceHistory, ticks, restockedAt, now>>

\* EconomySimulator.tick()
Tick ==
    LET r == tick([items |-> items, traders |-> traders, activeEvents |-> activeEvents,
                   priceHistory |-> priceHistory])
    IN  /\ ticks < MaxTicks
        /\ ticks' = ticks + 1
        /\ items' = r.items
        /\ traders' = r.traders
        /\ activeEvents' = r.activeEvents
        /\ priceHistory' = r.priceHistory
        /\ restockedAt' = [t \in DOMAIN restockedAt \cup
                                  {u \in DOMAIN traders : traders[u].restockCooldown <= 0} |->
                              IF traders[t].restockCooldown <= 0 THEN ticks' ELSE restockedAt[t]]
        /\ last' = [op |-> "tick"]
        /\ UNCHANGED <<storeVars, engineVars, talks, scheduleVars, tickVars, factionVars, now, steps>>

\* EconomySimulator.triggerEconomicEvent(type, affectedItems, multiplier, duration)
TriggerEconomicEvent ==
    \E ev \in EconomicEventInputs :
        /\ Step
        /\ activeEvents' = triggerEconomicEvent(activeEvents, ev.type, ev.affectedItems,
                                                ev.multiplier, ev.duration)
        /\ last' = [op |-> "triggerEconomicEvent", type |-> ev.type]
        /\ UNCHANGED <<storeVars, engineVars, talks, scheduleVars, tickVars, factionVars, items, traders, priceHistory,
                       ticks, restockedAt, now>>

\* POST /api/session/:playerId/apply
Apply ==
    \E pid \in PlayerIds, plan \in ApplyInputs :
        \E rnd \in Draws(table, plan) :
            LET r == ApplyRequest(table, Store, pid, plan, rnd)
            IN  /\ Step
                /\ Commit(r.s)
                /\ last' = [op |-> "apply", pid |-> pid, plan |-> plan,
                            status |-> r.status, error |-> r.error]
                /\ UNCHANGED <<nextEvt, nextBug, Others>>

\* POST /api/session/:playerId/act
Act ==
    \E pid \in PlayerIds, plan \in ActInputs, statePatch \in StatePatchInputs,
       withEvent \in BOOLEAN :
        \E rnd \in Draws(table, plan) :
            LET improvised == StoreOf(build) = "part_002" /\ ~hasAction(table, plan.action)
                r == ActRequest(StoreOf(build), table, Store, pid, plan, statePatch,
                                IF withEvent THEN nextEvt ELSE 0, rnd)
            IN  /\ Step
                /\ withEvent => improvised /\ nextEvt <= MaxEvtPush
                /\ Commit(r.s)
                /\ nextEvt' = IF withEvent THEN nextEvt + 1 ELSE nextEvt
                /\ last' = [op |-> "act", pid |-> pid, plan |-> plan,
                            status |-> r.status, error |-> r.error]
                /\ UNCHANGED <<nextBug, Others>>

\* POST /api/npc/:npcId/talk, up to its await
Talk ==
    \E pid \in PlayerIds, npcId \in NpcIds, input \in TalkInputs :
        LET r == TalkRequest(StoreOf(build), Store, pid, npcId, input)
        IN  /\ Step
            /\ Commit(r.s)
            /\ talks' = IF r.status = 0 THEN MapSet(talks, steps', r.talk) ELSE talks
            /\ last' = [op |-> "talk", pid |-> pid, npcId |-> npcId, input |-> input,
                        status |-> r.status, error |-> r.error]
            /\ UNCHANGED <<nextEvt, nextBug, engineVars, factionVars, economyVars, tickVars,
                           scheduleVars, now>>

\* completeJson resolves: the rest of the handler of request k
TalkReply ==
    \E k \in DOMAIN talks, reply \in TalkReplyInputs :
        \E rnd \in Draws(table, reply.action) :
            LET talk == talks[k]
                r == TalkResult(StoreOf(build), table, Store, talk, reply, now, rnd)
                wrote == StoreOf(build) = "part_002" /\ ~talk.detached /\ talk.npcId \in DOMAIN npcs
                convEntry == ConvEntry(talk.input, reply.reply)
            IN  /\ Commit(r.s)
                /\ talks' = [j \in DOMAIN talks \ {k} |->
                               IF wrote /\ talks[j].npcId = talk.npcId /\ ~talks[j].detached
                               THEN [talks[j] EXCEPT !.missed = Append(@, convEntry)]
                               ELSE talks[j]]
                /\ last' = [op |-> "talkReply", pid |-> talk.pid, npcId |-> talk.npcId,
                            convEntry |-> convEntry, missed |-> talk.missed, wrote |-> wrote,
                            status |-> r.status, error |-> r.error]
                /\ UNCHANGED <<nextEvt, nextBug, engineVars, factionVars, economyVars, tickVars,
                               scheduleVars, now, steps>>

\* completeJson rejects: the catch answers 500 and nothing is written
TalkFails ==
    \E k \in DOMAIN talks :
        /\ talks' = MapDel(talks, k)
        /\ last' = [op |-> "talkReply", pid |-> talks[k].pid, npcId |-> talks[k].npcId,
                    convEntry |-> <<>>, missed |-> talks[k].missed, wrote |-> FALSE,
                    status |-> 500, error |-> "completeJson failed"]
        /\ UNCHANGED <<storeVars, engineVars, factionVars, economyVars, tickVars,
                       scheduleVars, now, steps>>

\* GET /api/session/:playerId/status
Status ==
    \E pid \in PlayerIds :
        LET r == buildPlayerStatus(Store, pid)
        IN  /\ Step
            /\ Commit(r.s)
            /\ last' = [op |-> "status", pid |-> pid, ui |-> r.ui]
            /\ UNCHANGED <<nextEvt, nextBug, Others>>

UpdateCityPolicyInfluence ==
    \E cityId \in PolicyCityInputs, factionId \in PolicyFactionInputs, weightDelta \in WeightDeltaInputs :
        /\ Step
        /\ cityPolicyInfluences' = updateCityPolicyInfluence(cityPolicyInfluences, cityId, factionId, weightDelta)
        /\ last' = [op |-> "updateCityPolicyInfluence", cityId |-> cityId,
                    factionId |-> factionId, weightDelta |-> weightDelta]
        /\ UNCHANGED <<storeVars, engineVars, talks, scheduleVars, tickVars, economyVars, factionRep, conflicts,
                       zoneControls, zoneCalls, basePolicies, now>>

\* calculateCityPolicy(city, city.policy)
CalculateCityPolicy ==
    \E cityId \in PolicyCityInputs :
        LET r == calculateCityPolicy(cityPolicyInfluences, cityId, basePolicies[cityId])
        IN  /\ Step
            /\ basePolicies' = [basePolicies EXCEPT ![cityId] = r.base]
            /\ last' = [op |-> "calculateCityPolicy", cityId |-> cityId, policy |-> r.policy]
            /\ UNCHANGED <<storeVars, engineVars, talks, scheduleVars, tickVars, economyVars, factionRep, conflicts,
                           zoneControls, zoneCalls, cityPolicyInfluences, now>>

\* the watcher's load(): the actions module is imported anew and handed to
\* engine.reloadActions
ReloadActions ==
    \E registered \in TableIds :
        /\ Step
        /\ table' = reloadActions(table, registered)
        /\ last' = [op |-> "reloadActions", registered |-> registered]
        /\ UNCHANGED <<storeVars, build, talks, factionVars, economyVars, tickVars, scheduleVars, now>>

\* orchestrateTick up to its await: the timer or a request starts a cycle
\* when the tasks of the last one have settled
StartCycle ==
    /\ Step
    /\ \A t \in DOMAIN tasks : tasks[t].state \in {"done", "rejected"}
    /\ IF StoreOf(build) = "part_002" /\ DOMAIN players = {}
       THEN /\ tasks' = EmptyMap
            /\ cycle' = "finished"
            /\ UNCHANGED players
       ELSE /\ players' = IF StoreOf(build) = "part_002"
                          THEN decayHeatForAllPlayers(players, HeatDecay) ELSE players
            /\ tasks' = [t \in CycleTasks(StoreOf(build), npcs, rooms) |-> NewTask]
            /\ cycle' = "running"
    /\ last' = [op |-> "orchestrateTick"]
    /\ UNCHANGED <<rooms, cities, npcs, events, bugReports, glossary, nextEvt, nextBug,
                   engineVars, talks, scheduleVars, factionVars, economyVars, now>>

\* the collaborator answers the call of task t, and the task runs to its end
TaskReply ==
    \E t \in DOMAIN tasks :
        \E reply \in Replies(t) :
            LET ts == Settle(tasks, t, reply)
            IN  /\ tasks[t].state = "waiting"
                /\ reply.kind = "event" => nextEvt <= MaxEvtPush
                /\ Commit(taskResult(StoreOf(build), Store, tasks, t, reply, nextEvt))
                /\ nextEvt' = IF reply.kind = "event" THEN nextEvt + 1 ELSE nextEvt
                /\ tasks' = ts
                /\ cycle' = IF cycle = "running" THEN CycleAfter(ts) ELSE cycle
                /\ last' = [op |-> "taskReply", task |-> t, reply |-> reply]
                /\ UNCHANGED <<nextBug, engineVars, talks, scheduleVars, factionVars, economyVars, now, steps>>

\* the collaborator never answers the call of task t: fetch has no deadline
CollaboratorHangs ==
    \E t \in DOMAIN tasks :
        /\ tasks[t].state = "waiting"
        /\ tasks' = [tasks EXCEPT ![t].state = "hung"]
        /\ last' = [op |-> "hang", task |-> t]
        /\ UNCHANGED <<storeVars, engineVars, talks, scheduleVars, factionVars, economyVars, cycle, now, steps>>

-----------------------------------------------------------------------------
(* Specifications *)

\* the store under its own operations
NextStore ==
    \/ EnsurePlayer
    \/ ApplyWorld
    \/ MergeWorld
    \/ UpsertNpc
    \/ UpdateNpcsFromSnapshot
    \/ SyncFromSnapshot
    \/ NpcTick
    \/ Restart

SpecStore == Init /\ [][NextStore]_vars

\* loading a state file over a store that holds something
NextLoad ==
    \/ LoadPersistedState
    \/ EnsurePlayer
    \/ UpsertNpc
    \/ NpcTick
    \/ ProcessBugReports

SpecLoad == Init /\ [][NextLoad]_vars

\* the event log: pushes, and the operations that clear or reload it
NextEvents ==
    \/ PushEvent
    \/ ApplyWorld
    \/ Restart

SpecEvents == Init /\ [][NextEvents]_vars

\* the bug-report log: pushes, the mitigation pass, and reloads
NextBugs ==
    \/ PushBugReport
    \/ ProcessBugReports
    \/ Restart

SpecBugs == Init /\ [][NextBugs]_vars

\* the engine over a world that changes under it
NextAct ==
    \/ Resolve
    \/ UpsertNpc
    \/ ApplyWorld

SpecAct == Init /\ [][NextAct]_vars

\* everything that touches a player's credits, health, hunger and heat
NextPlayer ==
    \/ Resolve
    \/ RunJob
    \/ DecayHeat
    \/ AdvanceClock
    \/ RegisterTrader
    \/ BuyItem
    \/ SellItem

SpecPlayer == Init /\ [][NextPlayer]_vars

\* everything that touches a reputation
NextRep ==
    \/ ResolveCombat
    \/ UpdatePlayerReputation

SpecRep == Init /\ [][NextRep]_vars

\* the job board: jobs, the clock, the heat decay, walking, and worlds that
\* bring their own players
NextJobs ==
    \/ RunJob
    \/ AdvanceClock
    \/ DecayHeat
    \/ ResolveMove
    \/ ApplyWorld

SpecJobs == Init /\ [][NextJobs]_vars

\* faction influence on the city policies
NextPolicy ==
    \/ UpdateCityPolicyInfluence
    \/ CalculateCityPolicy

SpecPolicy == Init /\ [][NextPolicy]_vars

\* resolutions while the actions module is reloaded
NextReload ==
    \/ ReloadActions
    \/ Resolve

SpecReload == Init /\ [][NextReload]_vars

\* the orchestration cycle among the requests that write NPCs
NextTick ==
    \/ StartCycle
    \/ TaskReply
    \/ CollaboratorHangs
    \/ UpsertNpc
    \/ EnsurePlayer

SpecTick == Init /\ [][NextTick]_vars

\* the cycle alone; a collaborator that answers does so in the end
NextCycle ==
    \/ StartCycle
    \/ TaskReply
    \/ CollaboratorHangs
    \/ EnsurePlayer

SpecCycle == Init /\ [][NextCycle]_vars /\ WF_vars(TaskReply)

\* the NPC scheduler and the players that walk in and out of its rooms
NextSchedule ==
    \/ InitializeDefaultSchedules
    \/ SetGameTime
    \/ UpdateSchedules
    \/ EnsurePlayer
    \/ ResolveMove

SpecSchedule == Init /\ [][NextSchedule]_vars

\* heat: jobs raise it, the timer's cycles and the requests run the maintenance
NextHeat ==
    \/ StartCycle
    \/ TaskReply
    \/ Apply
    \/ RunJob

SpecHeat == Init /\ [][NextHeat]_vars

\* players that act while the world is replaced, merged and resynchronised
NextWorld ==
    \/ EnsurePlayer
    \/ Resolve
    \/ ApplyWorld
    \/ MergeWorld
    \/ SyncFromSnapshot

SpecWorld == Init /\ [][NextWorld]_vars

\* talking to the NPCs
NextTalk ==
    \/ UpsertNpcTalk
    \/ Talk
    \/ TalkReply
    \/ TalkFails
    \/ ResolveMove
    \/ AdvanceClock

SpecTalk == Init /\ [][NextTalk]_vars

\* everything that changes a player's health
NextHealth ==
    \/ Act
    \/ Resolve
    \/ RunJob
    \/ UpsertNpc

SpecHealth == Init /\ [][NextHealth]_vars

\* the economy: ticks, events and trades
NextEconomy ==
    \/ Tick
    \/ TriggerEconomicEvent
    \/ EnsurePlayer
    \/ RegisterTrader
    \/ BuyItem
    \/ SellItem

SpecEconomy == Init /\ [][NextEconomy]_vars

\* the zone-control side of the faction system
NextZone ==
    \/ UpdateZoneInfluence
    \/ NestedUpdateZoneInfluence

SpecZone == Init /\ [][NextZone]_vars

\* the session endpoints: apply, status and jobs
NextApi ==
    \/ Apply
    \/ Status
    \/ RunJob
    \/ UpsertNpc

SpecApi == Init /\ [][NextApi]_vars

-----------------------------------------------------------------------------
(* Claims about the store *)

\* C4: after any sequence of store operations, every NPC whose location is
\* set is located in a room that is present in the store.
C4_NpcLocationsExist ==
    \A n \in DOMAIN npcs :
        "location" \in DOMAIN npcs[n] => npcs[n]["location"] \in DOMAIN rooms

\* C9: ensurePlayer(id) changes nothing when id is already in the store; for
\* a new id it inserts exactly one player, located in the spawn room with
\* credits 100, health 100, hunger 100 and status ok, leaving every other
\* player alone; a second call right after leaves the store as the first
\* left it; nothing but the players map is touched.
C9_EnsurePlayerIdempotent ==
    [][last'.op = "ensurePlayer" =>
        LET pid == last'.pid
        IN  /\ pid \in DOMAIN players => players' = players
            /\ pid \notin DOMAIN players =>
                 /\ DOMAIN players' = DOMAIN players \cup {pid}
                 /\ \A q \in DOMAIN players : players'[q] = players[q]
                 /\ players'[pid].location = "square"
                 /\ players'[pid].credits = Cr(100)
                 /\ players'[pid].health = 100
                 /\ players'[pid].hunger = 100
                 /\ players'[pid].status = "ok"
            /\ ensurePlayer(players', pid) = players'
            /\ <<rooms, cities, npcs, events, bugReports, glossary>>'
                 = <<rooms, cities, npcs, events, bugReports, glossary>>]_vars

\* ensurePlayer was called on a player whose record is not the default one,
\* and the record is still there
C9_Witness ==
    /\ last.op = "ensurePlayer"
    /\ last.pid \in DOMAIN players
    /\ players[last.pid].location = "hut"

\* C11: upsertNpc(npc) on an id already in the store leaves a record in which
\* every field of the update has the update's value and every field the
\* update lacks keeps the value of the existing record, and no other field
\* appears; on a new id the stored record is the given one; the other NPCs
\* are left alone.
C11_UpsertNpcMerges ==
    [][last'.op = "upsertNpc" =>
        LET u == last'.npc
            id == u["id"]
        IN  /\ DOMAIN npcs' = DOMAIN npcs \cup {id}
            /\ \A n \in DOMAIN npcs \ {id} : npcs'[n] = npcs[n]
            /\ id \notin DOMAIN npcs => npcs'[id] = u
            /\ id \in DOMAIN npcs =>
                 /\ DOMAIN npcs'[id] = DOMAIN npcs[id] \cup DOMAIN u
                 /\ \A f \in DOMAIN u : npcs'[id][f] = u[f]
                 /\ \A f \in DOMAIN npcs[id] \ DOMAIN u : npcs'[id][f] = npcs[id][f]]_vars

\* C10: applyWorld and mergeWorld, given a spec in which a room names a
\* neighbour or a city that the spec does not contain, leave rooms, cities,
\* players and NPCs exactly as they were.
C10_InvalidSpecRejected ==
    [][(last'.op \in {"applyWorld", "mergeWorld"} /\ ~SpecIsValid(last'.spec)) =>
        <<rooms, cities, players, npcs>>' = <<rooms, cities, players, npcs>>]_vars

\* C5: the event log never holds more than 50 entries; it is ordered newest
\* first and holds exactly the most recently pushed events, none skipped; a
\* push onto a full log keeps the 50 newest and drops the oldest.
C5_EventLogNewestFirst ==
    /\ [](/\ Len(events) <= EventCap
          /\ \A i \in 1..Len(events) : events[i] = nextEvt - i)
    /\ [][last'.op = "pushEvent" =>
            /\ Len(events') = Min(Len(events) + 1, EventCap)
            /\ events'[1] = last'.evt
            /\ \A i \in 2..Len(events') : events'[i] = events[i - 1]]_vars

\* the 51st push in a row has happened: 50 entries, event 1 is gone
C5_Witness ==
    /\ last.op = "pushEvent"
    /\ last.evt = EventCap + 1
    /\ Len(events) = EventCap
    /\ events[EventCap] = 2

\* C6: the bug-report log never holds more than 200 entries; it is in push
\* order and holds the most recently pushed reports, none skipped; a push
\* onto a full log drops the oldest entry only, and a reload keeps a suffix
\* of the log.
C6_BugLogPushOrder ==
    /\ [](/\ Len(bugReports) <= BugReportCap
          /\ \A i \in 1..Len(bugReports) :
                bugReports[i] = nextBug - Len(bugReports) + i - 1)
    /\ [][last'.op = "pushBugReport" =>
            /\ Len(bugReports') = Min(Len(bugReports) + 1, BugReportCap)
            /\ bugReports'[Len(bugReports')] = last'.report]_vars
    /\ [][last'.op = "restart" =>
            bugReports' = TakeLast(bugReports, Len(bugReports'))]_vars

\* the 201st push in a row has happened: 200 entries, report 1 is gone
C6_Witness ==
    /\ last.op = "pushBugReport"
    /\ last.report = BugReportCap + 1
    /\ Len(bugReports) = BugReportCap
    /\ bugReports[1] = 2

\* C7: loading the snapshot of the store into a fresh store yields the same
\* players, rooms, cities, NPCs, glossary, event list and bug-report list.
C7_SnapshotRoundTrip ==
    loadPersistedState(FreshStore, JsonFile(toPersistedState(Store))) = Store

\* C8: after loadSnapshot of data that lacks any subset of its keys, every
\* collection holds exactly what the data supplied for it and is empty for
\* each missing key.
C8_LoadReplacesEverything ==
    [][(last'.op = "loadPersistedState" /\ ~last'.data.null) =>
        LET d == last'.data.body
            coll(k) == IF k \in DOMAIN d THEN FromEntries(d[k]) ELSE EmptyMap
            list(k) == IF k \in DOMAIN d THEN d[k] ELSE <<>>
        IN  /\ players' = coll("players")
            /\ rooms' = coll("rooms")
            /\ cities' = coll("cities")
            /\ npcs' = coll("npcs")
            /\ glossary' = coll("glossary")
            /\ events' = list("events")
            /\ bugReports' = list("bugReports")]_vars

-----------------------------------------------------------------------------
(* Claims about the engine, the players and the reputations *)

\* C1: when a verb handler rejects a plan on validation, the result carries
\* a reason and the store is what it was before the call: the acting
\* player's record, every other player, the rooms, cities, NPCs and logs
\* (a player the store did not know yet is created by the call's
\* ensurePlayer, and nothing else changes).
C1_RejectionLeavesStateAlone ==
    [][(last'.op = "resolve" /\ last'.kind = "rejected") =>
        /\ last'.summary # ""
        /\ last'.pid \in DOMAIN players => Store' = Store
        /\ Store' = [Store EXCEPT !.players = ensurePlayer(@, last'.pid)]]_vars

\* a player who has spent credits before asks for more than the balance and
\* is turned down
C1_Witness ==
    /\ last.op = "resolve"
    /\ last.kind = "rejected"
    /\ last.plan.action = "withdraw"
    /\ last.plan.amount = 500
    /\ players[last.pid].credits < Cr(100)

\* C12: resolve(playerId, plan) for a player whose location exists and a verb
\* with no handler in the current table raises no error: it returns the
\* neutral recorded-but-unresolved result, and the store is what it was
\* except that the player's record has been created if it was absent.
C12_UnhandledVerbIsNeutral ==
    [][(/\ last'.op = "resolve"
        /\ last'.plan.action \notin Handlers(table)
        /\ ensurePlayer(players, last'.pid)[last'.pid].location \in DOMAIN rooms) =>
        /\ last'.kind = "unhandled"
        /\ Store' = [Store EXCEPT !.players = ensurePlayer(@, last'.pid)]]_vars

\* a verb that only the other handler table knows was recorded as unresolved
\* for a player who had moved away from the spawn room
C12_Witness ==
    /\ last.op = "resolve"
    /\ last.kind = "unhandled"
    /\ last.plan.action \in {"improv", "die"}
    /\ players[last.pid].location # "square"

\* C13: on /apply, a verb with no handler in the current table is answered
\* with a client-visible error and the request leaves the store unchanged:
\* no player is created, no handler runs and no maintenance tick runs.
C13_ApplyRejectsUnknownVerb ==
    [][(/\ last'.op = "apply"
        /\ last'.plan.action # "none"
        /\ Trim(last'.plan.action) # ""
        /\ ~hasAction(table, Trim(last'.plan.action))) =>
        /\ last'.status = 400
        /\ last'.error # ""
        /\ Store' = Store]_vars

\* an unknown verb was refused for a player the store does not know, while
\* another player carries heat that a maintenance tick would have lowered
C13_Witness ==
    /\ last.op = "apply"
    /\ last.status = 400
    /\ last.error = "unknown action"
    /\ last.pid \notin DOMAIN players
    /\ \E q \in DOMAIN players : players[q].heat > 0

\* C14: the status query for any player id, known to the store or not,
\* leaves the set of players and every player, room, city and NPC record as
\* they were.
C14_StatusLeavesStoreAlone ==
    [][last'.op = "status" =>
        <<players, rooms, cities, npcs>>' = <<players, rooms, cities, npcs>>]_vars

\* C15: an accepted withdraw of amount a in a city with withdraw tax rate r
\* charges fee = ceil(a * r) and debits the player a + fee (credits 1000,
\* r = 0.02, a = 100 leave 898); after every accepted withdraw the credits are
\* a non-negative whole number.
C15_WithdrawChargesCeilFee ==
    [][(/\ last'.op = "resolve"
        /\ last'.plan.action = "withdraw"
        /\ last'.kind = "ok") =>
        LET pid == last'.pid
            before == ensurePlayer(players, pid)[pid]
            city == getCityForRoom(rooms, cities, before.location)
            a == last'.plan.amount
            fee == -FloorDiv(-(a * cities[city].taxWithdraw), 100)
        IN  /\ players'[pid].credits >= 0
            /\ players'[pid].credits % Cr(1) = 0
            /\ city # "none" => players'[pid].credits = before.credits - Cr(a + fee)]_vars

\* C16: when the death penalty is applied to a victim with credits c and an
\* inventory of n items (ids may repeat), the victim loses exactly
\* floor(c * 0.10) credits when the death is not a pvp kill, and exactly 0
\* items under drop rule none, floor(n * 0.30) items under partial, and none
\* under full (which drops everything on a pvp kill only).
C16_DeathPenaltyExact ==
    [][(/\ last'.op = "resolve"
        /\ last'.plan.action = "die"
        /\ last'.kind = "ok") =>
        LET pid == last'.pid
            before == ensurePlayer(players, pid)[pid]
            city == getCityForRoom(rooms, cities, before.location)
            n == Len(before.inventory)
            dropped == IF cities[city].dropRule = "partial" THEN FloorDiv(n * 3, 10) ELSE 0
        IN  /\ players'[pid].credits = before.credits - Cr(FloorDiv(before.credits, Cr(10)))
            /\ city # "none" => Len(players'[pid].inventory) = n - dropped]_vars

\* C17: after every updateZoneInfluence call that returns, for that zone:
\* contested is true iff at least two factions have an influence entry and
\* the two highest influences are less than 20 apart, and the controlling
\* faction is the highest-influence faction iff its influence is at least 60
\* and the zone is not contested, else null (65 against 50 is contested and
\* nobody controls).
C17_ZoneControlStatus ==
    [][(last'.op = "updateZoneInfluence" /\ last'.state = "returned") =>
        LET zc == zoneControls'[last'.zoneId]
            vals == {zc.influence[i][2] : i \in 1..Len(zc.influence)}
            hi == CHOOSE v \in vals : \A w \in vals : w <= v
            tops == {i \in 1..Len(zc.influence) : zc.influence[i][2] = hi}
            rest == {zc.influence[i][2] : i \in (1..Len(zc.influence)) \ tops}
            second == IF Cardinality(tops) > 1 THEN hi
                      ELSE CHOOSE v \in rest : \A w \in rest : w <= v
            close == Len(zc.influence) >= 2 /\ hi - second < 20
        IN  /\ zc.contested <=> close
            /\ IF hi >= 60 /\ ~close
               THEN zc.controllingFactionId = zc.influence[CHOOSE i \in tops : TRUE][1]
               ELSE zc.controllingFactionId = "null"]_vars

\* influence 65 against 50 in one zone: contested, nobody controls
C17_Witness ==
    /\ last.op = "updateZoneInfluence"
    /\ last.state = "returned"
    /\ LET zc == zoneControls[last.zoneId]
       IN  /\ {zc.influence[i][2] : i \in 1..Len(zc.influence)} = {65, 50}
           /\ zc.contested
           /\ zc.controllingFactionId = "null"

\* C18: after an economy tick every catalogue item's currentPrice equals
\* max(1, round(basePrice * (1 + volatility * (demand - supply / maxStock)) *
\* the product of the multipliers of all events active on the item)),
\* computed from the item's supply and demand at the start of the tick
\* (basePrice 10, volatility 0.2, demand 0.5, supply 100 of 200 and no event
\* keep the price at 10), and no price is ever below 1.
C18_TickPrice ==
    /\ [](\A i \in DOMAIN items : items[i].currentPrice >= 1)
    /\ [][last'.op = "tick" =>
            \A i \in DOMAIN items :
                LET it == items[i]
                    on == {k \in 1..Len(activeEvents) : i \in activeEvents[k].affectedItems}
                    \* 100000 * maxStock * (1 + volatility * (demand - supply / maxStock))
                    scaled == 100000 * it.maxStock
                                + it.volatility * (it.demand * it.maxStock - 1000 * it.supply)
                    price == Frac(scaled, 100000 * it.maxStock)
                    withEvents == FracMul(FracMul(Frac(it.basePrice, 1), price),
                                          getEventMultiplier(activeEvents, i))
                IN  /\ items'[i].currentPrice = Max(1, FracRound(withEvents))
                    /\ on = {} /\ scaled = 100000 * it.maxStock =>
                           items'[i].currentPrice = it.basePrice]_vars

\* a tick has run with an event active: iron ore (demand 0.5, supply 100 of
\* 200, untouched by the event) is still at 10, the potion has moved with its
\* demand and the event, and wood is held at the floor of 1 by a crash
C18_Witness ==
    /\ last.op = "tick"
    /\ items["iron-ore"].currentPrice = 10
    /\ items["iron-ore"].supply = 105
    /\ items["health-potion"].currentPrice = 33
    /\ items["wood"].currentPrice = 1

\* the wanted level the claim gives for a heat value
ClaimedWantedLevel(h) ==
    CASE h >= 85 -> 5
      [] 70 <= h /\ h < 85 -> 4
      [] 55 <= h /\ h < 70 -> 3
      [] 35 <= h /\ h < 55 -> 2
      [] 15 <= h /\ h < 35 -> 1
      [] h < 15 -> 0

\* C19: for every heat h in 0..100 the wanted level is 5 from 85, 4 from 70,
\* 3 from 55, 2 from 35, 1 from 15 and 0 below 15 (85 gives 5, 54 gives 2,
\* 14 gives 0), and after every successful job the reported wanted level is
\* that of the player's new heat.
C19_WantedLevel ==
    /\ [](/\ \A h \in 0..100 : computeWantedLevel(h) = ClaimedWantedLevel(h)
          /\ computeWantedLevel(85) = 5
          /\ computeWantedLevel(54) = 2
          /\ computeWantedLevel(14) = 0)
    /\ [][(last'.op = "runJob" /\ last'.kind = "ok") =>
            last'.wanted = ClaimedWantedLevel(players'[last'.pid].heat)]_vars

\* a job has just brought a player's heat onto the threshold 35: wanted level 2
C19_Witness ==
    /\ last.op = "runJob"
    /\ last.kind = "ok"
    /\ players[last.pid].heat = 35
    /\ last.wanted = 2

\* C20: runJob for a job whose gate fails (cooldown not elapsed, wrong zone
\* or room, an illegal job while heat is 95 or more) returns a reason and
\* leaves the player's credits, health, hunger, heat, status and job-cooldown
\* stamps, and the rest of the store, unchanged.
C20_BlockedJobMutatesNothing ==
    [][(last'.op = "runJob" /\ last'.kind = "blocked") =>
        LET pid == last'.pid
            before == ensurePlayer(players, pid)[pid]
        IN  /\ last'.summary # ""
            /\ players'[pid] = before
            /\ Store' = [Store EXCEPT !.players = ensurePlayer(@, pid)]]_vars

\* an illegal job was refused to a player whose heat is 95 or more and who
\* stands where the job is offered
C20_Witness ==
    /\ last.op = "runJob"
    /\ last.kind = "blocked"
    /\ last.summary = "too much heat"
    /\ players[last.pid].heat >= IllegalHeatCeiling

\* C21: whenever an NPC-autonomy task that decided a move to an existing room
\* completes and the NPC is still in the store, the record stored under the
\* NPC's id has that location, whatever ran between the task's read and its
\* write.
C21_NoLostNpcMove ==
    [][(/\ last'.op = "taskReply"
        /\ last'.reply.kind = "move"
        /\ last'.reply.moveTo \in DOMAIN rooms
        /\ last'.task \in DOMAIN npcs') =>
        NpcField(npcs'[last'.task], "location") = last'.reply.moveTo]_vars

\* C22: a task whose collaborator call fails changes nothing in the store, and
\* whenever the cycle is reported finished every task of the cycle has run
\* to its end.
C22_FailedTaskIsolated ==
    /\ [][(last'.op = "taskReply" /\ last'.reply.kind = "error") => Store' = Store]_vars
    /\ [](cycle = "finished" =>
            \A t \in DOMAIN tasks : tasks[t].state \in {"done", "rejected"})

\* C23: every orchestration cycle that is running eventually finishes, also
\* when a collaborator never answers.
C23_CycleFinishes == (cycle = "running") ~> (cycle = "finished")

C25_DeriveLeavesBaseAlone ==
    [][last'.op = "calculateCityPolicy" => basePolicies' = basePolicies]_vars

\* the goal effects as the claim words them, on a policy in the model's units
ClaimedEffect(policy, factionId, weight) ==
    [safetyLevel |-> IF factionId = "guard-corps" THEN Min(1000, policy.safetyLevel + weight)
                     ELSE policy.safetyLevel,
     taxTrade |-> IF factionId = "merchant-guild" THEN Max(0, policy.taxTrade - 2 * weight)
                  ELSE policy.taxTrade,
     density |-> IF factionId = "guard-corps"
                 THEN CASE policy.density = "low" -> "med"
                        [] policy.density = "med" -> "high"
                        [] OTHER -> policy.density
                 ELSE policy.density,
     pvpOn |-> IF factionId = "shadow-cabal" THEN TRUE ELSE policy.pvpOn,
     pvpPenalty |-> IF factionId = "shadow-cabal" THEN "fine" ELSE policy.pvpPenalty]

RECURSIVE ClaimedPolicy(_, _)
ClaimedPolicy(policy, influences) ==
    IF influences = <<>> THEN policy
    ELSE ClaimedPolicy(ClaimedEffect(policy, Head(influences).factionId, Head(influences).policyWeight),
                       Tail(influences))

\* C28: the effective policy is the base policy with each registered faction's
\* goal effects applied once, in registration order (trade tax lowered by
\* 0.02 x weight and not below 0, safety raised by 0.10 x weight and not above
\* 1, guard density stepped once along low, med, high, pvp on with penalty
\* fine); a faction is registered at the end of the city's list with weight
\* 0.3, to which its first update is applied, and weights stay within [0,1].
C28_EffectivePolicy ==
    /\ [](\A c \in DOMAIN cityPolicyInfluences :
            \A i \in DOMAIN cityPolicyInfluences[c] :
                cityPolicyInfluences[c][i].policyWeight \in 0..100)
    /\ [][last'.op = "calculateCityPolicy" =>
            last'.policy = ClaimedPolicy(basePolicies[last'.cityId],
                                         getCityPolicyInfluence(cityPolicyInfluences, last'.cityId))]_vars
    /\ [][(/\ last'.op = "updateCityPolicyInfluence"
            /\ \A i \in DOMAIN getCityPolicyInfluence(cityPolicyInfluences, last'.cityId) :
                   cityPolicyInfluences[last'.cityId][i].factionId # last'.factionId) =>
            LET before == getCityPolicyInfluence(cityPolicyInfluences, last'.cityId)
                after == cityPolicyInfluences'[last'.cityId]
            IN  /\ Len(after) = Len(before) + 1
                /\ SubSeq(after, 1, Len(before)) = before
                /\ after[Len(after)].factionId = last'.factionId
                /\ after[Len(after)].policyWeight =
                       Max(0, Min(100, StartWeight + last'.weightDelta))]_vars

\* two factions weigh on the quiet city: the tax is floored at 0, the safety
\* capped at 1 and the guard density stepped from low to med
C28_Witness ==
    /\ last.op = "calculateCityPolicy"
    /\ last.cityId = "keep"
    /\ Len(getCityPolicyInfluence(cityPolicyInfluences, "keep")) = 2
    /\ last.policy.taxTrade = 0
    /\ last.policy.safetyLevel = 1000
    /\ last.policy.density = "med"

\* C26: a move succeeds only when the target is listed among the neighbours
\* of the player's room; on success the player's location is the target and
\* the target is in discoveredRooms; and discoveredRooms never holds a room
\* id twice.
C26_MoveAndDiscovery ==
    /\ [][(last'.op = "resolve" /\ last'.plan.action = "move" /\ last'.kind = "ok") =>
            LET pid == last'.pid
                before == ensurePlayer(players, pid)[pid]
            IN  /\ before.location \in DOMAIN rooms
                /\ last'.plan.target \in rooms[before.location].neighbors
                /\ players'[pid].location = last'.plan.target
                /\ Includes(players'[pid].discoveredRooms, last'.plan.target)]_vars
    /\ [](\A p \in DOMAIN players :
            \A i, j \in 1..Len(players[p].discoveredRooms) :
                players[p].discoveredRooms[i] = players[p].discoveredRooms[j] => i = j)

\* a player has walked back into a room discovered before
C26_Witness ==
    /\ last.op = "resolve"
    /\ last.plan.action = "move"
    /\ last.kind = "ok"
    /\ players[last.pid].location = "market"
    /\ players[last.pid].discoveredRooms = <<"market", "square">>

\* C27: the respawn location of the death penalty is the home square if the
\* victim has discovered it, else a room the victim has discovered, and the
\* wild fallback only when the victim has discovered no room at all.
C27_RespawnPriority ==
    [][(last'.op = "resolve" /\ last'.plan.action = "die" /\ last'.kind = "ok") =>
        LET pid == last'.pid
            discovered == ensurePlayer(players, pid)[pid].discoveredRooms
            respawn == players'[pid].location
        IN  IF Includes(discovered, "square") THEN respawn = "square"
            ELSE IF discovered # <<>> THEN Includes(discovered, respawn)
            ELSE respawn = "wild_north"]_vars

\* the two leading entries of a zone's influences are less than 15 apart
CloseContest(zc) ==
    /\ zc.contested
    /\ Len(zc.influence) >= 2
    /\ Abs(zc.influence[TopIndex(zc.influence, {})][2]
           - zc.influence[TopIndex(zc.influence, {TopIndex(zc.influence, {})})][2]) < 15

\* C29: a call of updateZoneInfluence whose update leaves the zone contested
\* with two registered factions leading less than 15 apart has, when it ends,
\* appended exactly one conflict record and lowered the influence of each of
\* the two by exactly 5 (floored at 0), once; and the conflict buffer never
\* holds more than 50 records.
C29_ConflictSinglePass ==
    /\ Len(conflicts) <= ConflictCap
    /\ (last.op = "updateZoneInfluence" /\ last.state # "running" /\ CloseContest(last.after)) =>
            LET inf == last.after.influence
                a == inf[TopIndex(inf, {})]
                b == inf[TopIndex(inf, {TopIndex(inf, {})})]
                now2 == zoneControls[last.zoneId].influence
            IN  (a[1] \in FactionIds /\ b[1] \in FactionIds) =>
                    /\ last.records = 1
                    /\ InfluenceOf(now2, a[1]) = Max(0, a[2] - 5)
                    /\ InfluenceOf(now2, b[1]) = Max(0, b[2] - 5)

\* C30: every call of updateZoneInfluence comes to its end by returning: none
\* recurses until the call stack is exhausted.
C30_UpdateZoneInfluenceReturns ==
    ~(last.op = "updateZoneInfluence" /\ last.state = "thrown")

\* C31: after any sequence of tick, buyItem and sellItem calls every catalogue
\* item and every trader-local item has 0 <= supply <= maxStock; a tick raises
\* the catalogue supply by restockRate capped at maxStock, a buy is refused
\* without any change when the trader holds less than the requested quantity,
\* and a sell never raises the supply above maxStock.
C31_SupplyWithinStock ==
    /\ [](/\ \A i \in DOMAIN items : items[i].supply \in 0..items[i].maxStock
          /\ \A t \in DOMAIN traders : \A i \in DOMAIN traders[t].items :
                traders[t].items[i].supply \in 0..traders[t].items[i].maxStock)
    /\ [][/\ last'.op = "tick" =>
                \A i \in DOMAIN items :
                    items'[i].supply = Min(items[i].maxStock, items[i].supply + items[i].restockRate)
          /\ (/\ last'.op = "buyItem"
              /\ last'.tid \in DOMAIN traders
              /\ last'.itemId \in DOMAIN traders[last'.tid].items
              /\ traders[last'.tid].items[last'.itemId].supply < last'.quantity) =>
                /\ ~last'.success
                /\ UNCHANGED <<players, items, traders>>
          /\ last'.op = "sellItem" =>
                \A t \in DOMAIN traders' : \A i \in DOMAIN traders'[t].items :
                    traders'[t].items[i].supply <= traders'[t].items[i].maxStock]_vars

\* C32: each trader is restocked once every 5 economy ticks: a tick that
\* restocks a trader resyncs every local price to round(global price * the
\* trader's sell multiplier) and raises every local supply by
\* floor(restockRate * 0.5) capped at maxStock, and two consecutive restocks of
\* the same trader are exactly 5 ticks apart.
C32_TraderRestockEveryFive ==
    [][last'.op = "tick" =>
          \A t \in DOMAIN traders :
              /\ (t \in DOMAIN restockedAt' /\ restockedAt'[t] = ticks') =>
                    /\ \A i \in DOMAIN traders[t].items \cap DOMAIN items :
                          /\ traders'[t].items[i].currentPrice =
                                Round(items'[i].currentPrice * traders[t].sellMultiplier, 100)
                          /\ traders'[t].items[i].supply =
                                Min(traders[t].items[i].maxStock,
                                    traders[t].items[i].supply + (items[i].restockRate \div 2))
                    /\ t \in DOMAIN restockedAt => ticks' - restockedAt[t] = 5
              /\ (t \in DOMAIN restockedAt /\ ticks' - restockedAt[t] = 5) =>
                    restockedAt'[t] = ticks']_vars

\* the product of the multipliers of the events at the positions ks of evs
RECURSIVE ClaimedProduct(_, _)
ClaimedProduct(evs, ks) ==
    IF ks = {} THEN Frac(1, 1)
    ELSE LET k == CHOOSE x \in ks : TRUE
         IN  FracMul(Frac(evs[k].multiplier, 100), ClaimedProduct(evs, ks \ {k}))

\* C33: an economic event triggered with duration d >= 1 starts with d ticks
\* remaining; every tick multiplies the price of each item by the product of
\* the multipliers of all events active on it, then takes one tick off every
\* event and drops those that reach 0, so that an event acts on exactly the
\* next d ticks and no active event ever has remaining <= 0.
C33_EventLastsItsDuration ==
    /\ [](\A k \in 1..Len(activeEvents) :
              activeEvents[k].remaining \in 1..activeEvents[k].duration)
    /\ [][/\ last'.op = "triggerEconomicEvent" =>
                /\ Len(activeEvents') = Len(activeEvents) + 1
                /\ activeEvents'[Len(activeEvents')].remaining =
                        activeEvents'[Len(activeEvents')].duration
          /\ last'.op = "tick" =>
                LET kept == SelectSeq(activeEvents, LAMBDA ev : ev.remaining > 1)
                IN  /\ activeEvents' =
                            [k \in 1..Len(kept) |-> [kept[k] EXCEPT !.remaining = @ - 1]]
                    /\ \A i \in DOMAIN items :
                            LET it == items[i]
                                on == {k \in 1..Len(activeEvents) :
                                            i \in activeEvents[k].affectedItems}
                                plain == Frac(it.basePrice *
                                                (100000 * it.maxStock + it.volatility *
                                                    (it.demand * it.maxStock - 1000 * it.supply)),
                                              100000 * it.maxStock)
                            IN  items'[i].currentPrice =
                                    Max(1, FracRound(FracMul(plain, ClaimedProduct(activeEvents, on))))]_vars

\* a shortage of three ticks (x 1.2) on iron ore was triggered while the
\* mining shock (x 1.5) was active: the price was 18 on the three ticks both
\* acted, is 15 on the fourth tick, and only the mining shock is still active
C33_Witness ==
    /\ last.op = "tick"
    /\ priceHistory["iron-ore"] = <<10, 18, 18, 18, 15>>
    /\ Len(activeEvents) = 1
    /\ activeEvents[1].remaining = 6

\* the containment the claim states for a window that may wrap past midnight
ClaimedInWindow(hour, window) ==
    IF window[1] <= window[2]
    THEN window[1] <= hour /\ hour < window[2]
    ELSE hour >= window[1] \/ hour < window[2]

\* C34: for every hour in 0..23 and every window (start, end), each
\* time-window test of the NPC scheduler (spawn condition, despawn condition,
\* routine entry) holds exactly when start <= hour < end if start <= end, and
\* exactly when hour >= start or hour < end if the window wraps past midnight.
C34_TimeWindowWraps ==
    last.op = "updateSchedules" =>
        \A t \in last.tests : t.holds = ClaimedInWindow(last.hour, t.window)

\* C35: in every scheduler tick a scheduled NPC that is absent becomes present
\* only if its cooldown has expired and all of its spawn conditions hold, and
\* it is then placed at the routine location matching the current hour; an
\* NPC that is present when a despawn condition holds is removed in that tick
\* and stays absent at least until its cooldown has run out.
C35_SpawnAndDespawn ==
    [][last'.op = "updateSchedules" =>
          \A id \in DOMAIN schedules :
              LET schedule == schedules[id]
                  context == ScheduleContext(Store, gameTime, id)
                  allSpawn == \A k \in 1..Len(schedule.spawnConditions) :
                                 evaluateSpawnCondition(schedule.spawnConditions[k], context)
                  anyDespawn == \E k \in 1..Len(schedule.despawnConditions) :
                                   evaluateDespawnCondition(schedule.despawnConditions[k], context)
              IN  /\ (id \notin DOMAIN npcs /\ id \in DOMAIN npcs') =>
                        /\ schedule.spawnCooldown <= 0
                        /\ allSpawn
                        /\ NpcField(npcs'[id], "location") =
                                getTargetLocation(gameTime, schedule.routine)
                  /\ (id \in DOMAIN npcs /\ anyDespawn) => id \notin DOMAIN npcs'
                  /\ (id \notin DOMAIN npcs /\ schedule.spawnCooldown > 0) =>
                        id \notin DOMAIN npcs']_vars

C37_DecayOncePerInterval ==
    [][/\ (last'.op = "orchestrateTick" /\ StoreOf(build) = "part_002") =>
            \A p \in DOMAIN players :
                players'[p].heat = Max(0, getHeat(players[p]) - 4)
       /\ last'.op = "apply" =>
            \A p \in DOMAIN players \ {last'.pid} :
                players'[p].heat = players[p].heat]_vars

\* C38: after any sequence of ensurePlayer, resolve (move, die, respawn, pvp
\* kill), applyWorld, mergeWorld and syncFromSnapshot calls every player's
\* location is the id of a room of the store, and no resolve fails with an
\* invalid-location error.
C38_PlayersStandInRooms ==
    /\ \A p \in DOMAIN players : players[p].location \in DOMAIN rooms
    /\ ~(last.op = "resolve" /\ last.kind = "error"
            /\ last.summary = "Invalid player location")

\* C39: after any sequence of operations that change a player's health
\* (attack, die, respawn, runJob, improvised state patches) the player's
\* status is "down" exactly when the player's health is 0.
C39_DownIffNoHealth ==
    \A p \in DOMAIN players : (players[p].status = "down") <=> (players[p].health = 0)

\* C40: when two NPC-talk requests for the same NPC overlap (both read the
\* NPC's memory before either writes it back), the NPC's conversation history
\* afterwards ends with the entries of both exchanges, up to its cap of the
\* 10 most recent: a request that writes after others wrote during its await
\* leaves their entries before its own.
C40_OverlappingTalksBothRecorded ==
    (last.op = "talkReply" /\ last.wrote /\ last.missed # <<>>) =>
        LET conversationHistory == npcs[last.npcId]["memory"]["conversationHistory"]
            both == last.missed \o <<last.convEntry>>
        IN  TakeLast(conversationHistory, Min(Len(both), ConversationCap)) = TakeLast(both, ConversationCap)

\* C2: every player's credits are at least 0 and health, hunger and heat are
\* within [0,100], whatever operations have run.
C2_PlayerStatsInRange ==
    \A p \in DOMAIN players :
        /\ players[p].credits >= 0
        /\ players[p].health \in 0..100
        /\ players[p].hunger \in 0..100
        /\ players[p].heat \in 0..100

\* C3: every reputation value a player holds for a faction, in the faction
\* system or on the player record, is within [-100,100].
C3_ReputationInRange ==
    /\ \A p \in DOMAIN factionRep : \A f \in DOMAIN factionRep[p] :
          factionRep[p][f] \in -100..100
    /\ \A p \in DOMAIN players : \A f \in DOMAIN players[p].reputation :
          players[p].reputation[f] \in -100..100

\* an update has pushed a reputation against the upper limit, and a fight
\* and a death have happened on the way
C3_Witness ==
    /\ last.op = "updatePlayerReputation"
    /\ factionRep[last.pid][last.fid] = 100
    /\ \E p \in DOMAIN players : players[p].credits < Cr(100)

====
